---- MODULE Spec2Model ----
(***************************************************************************)
(* LRUCache / CachedUserStore (module_2/val_system/cache_layer.py) over    *)
(* the user stores of module_2/val_system/user_storage.py.                 *)
(*                                                                         *)
(* Strings are sequences of one-character strings, so that lower(),        *)
(* startswith(), endswith() and the f-string keys are computed.            *)
(* Python values that may be None, a bool or a dict are tagged records:    *)
(* None is [none |-> TRUE], a bool is [bool |-> b], a user dict is         *)
(* [email, user_id, ver].                                                  *)
(***************************************************************************)
EXTENDS Integers, Sequences, FiniteSets, TLC

\* ---------------------------------------------------------------- bounds
MaxClock == 2
MaxCalls == 3

\* ------------------------------------------------------------- universe
Threads == {"t1", "t2"}
NoThread == "none"

None == [none |-> TRUE]
Bool(b) == [bool |-> b]
Some(n) == [ttl |-> n]

\* float('inf') of CacheEntry.__init__
Inf == -1

Emails == {<<"a">>, <<"A">>, <<"b">>}
UserIds == {<<"1">>, <<"2">>}
Versions == {"v1", "v2"}

UserData(e, i, v) == [email |-> e, user_id |-> i, ver |-> v]
Records == {UserData(e, i, v) : e \in Emails, i \in UserIds, v \in Versions}

\* str.lower()
LowerChar(c) == IF c = "A" THEN "a" ELSE IF c = "B" THEN "b" ELSE c
Lower(s) == [n \in 1..Len(s) |-> LowerChar(s[n])]


\* mutant: the email key is built from the email as given
EmailKeyAsGiven(email) == <<"e", "m", "a", "i", "l", ":">> \o email

\* CachedUserStore._email_key / _id_key / _duplicate_key
EmailKey(email) == <<"e", "m", "a", "i", "l", ":">> \o Lower(email)
IdKey(user_id) == <<"i", "d", ":">> \o user_id
DupKey(email) == <<"d", "u", "p", ":">> \o Lower(email)

\* ---------------------------------------------------------------- state
VARIABLES
    cache,        \* LRUCache.cache: OrderedDict as a sequence, oldest first
    hits, misses, evictions,
    max_size, default_ttl,
    store_kind,   \* which user store backs the CachedUserStore: "memory" or "file"
    lock,         \* LRUCache.lock: the holding thread or NoThread
    now,          \* time.time()
    users, users_by_id,   \* the backing store's two indexes
    pc, loc, call,        \* per thread: position, locals of the outer call, cache-call frame
    snap,         \* map and counters when the lock was last acquired
    touch,        \* reference model: keys by last successful get/set, oldest first
    calls,        \* number of top-level calls the clients may still start
    heap          \* the clients' dict objects, by identity: heap[n] is the content of object n

vars == <<cache, hits, misses, evictions, max_size, default_ttl, store_kind, lock, now,
          users, users_by_id, pc, loc, call, snap, touch, calls, heap>>

\* what no code of LRUCache, CachedUserStore or the stores writes: the construction
\* parameters and the contents of the objects handed to them
cfgVars == <<max_size, default_ttl, store_kind, heap>>
storeVars == <<users, users_by_id>>
cacheVars == <<cache, hits, misses, evictions>>

Shared == [cache |-> cache, hits |-> hits, misses |-> misses, evictions |-> evictions]
NoSnap == [cache |-> <<>>, hits |-> 0, misses |-> 0, evictions |-> 0]

NoKey == <<>>
\* frame of one call into the cache: arguments, loop cursor (todo), the clock value
\* the call read (at), its return value, and the label it returns to
NoCall == [op |-> "none", key |-> NoKey, value |-> None, ttl |-> None, keys |-> <<>>,
           pattern |-> <<>>, todo |-> <<>>, count |-> 0, at |-> 0, ret |-> None,
           cont |-> "idle"]
\* locals of one top-level call; pre and t0 are the map, counters and clock at its start,
\* args the lists a warm_cache was called with
NoLoc == [op |-> "none", key |-> NoKey, email |-> <<>>, uid |-> <<>>, data |-> None,
          pattern |-> <<>>, emails |-> <<>>, user_ids |-> <<>>, cached |-> None,
          user_data |-> None, success |-> None, result |-> None, pre |-> NoSnap, t0 |-> 0,
          left |-> 0, wrote |-> <<>>, args |-> [emails |-> <<>>, user_ids |-> <<>>]]

\* ------------------------------------------------------- dict helpers
EmptyMap == [x \in {} |-> None]
Lookup(f, k) == IF k \in DOMAIN f THEN f[k] ELSE None
Put(f, k, v) == [x \in DOMAIN f \cup {k} |-> IF x = k THEN v ELSE f[x]]
Del(f, k) == [x \in DOMAIN f \ {k} |-> f[x]]

\* a value is either written out (a dict nobody else holds) or a reference to an
\* object of the heap
Ref(n) == [ref |-> n]
IsRef(v) == "ref" \in DOMAIN v
\* the content of a value as a reader sees it now
Contents(v) == IF IsRef(v) THEN heap[v.ref] ELSE v

\* ------------------------------------------------- OrderedDict helpers
KeysOf(c) == {c[n].key : n \in 1..Len(c)}
Has(c, k) == k \in KeysOf(c)
Entry(c, k) == c[CHOOSE n \in 1..Len(c) : c[n].key = k]
Remove(c, k) == SelectSeq(c, LAMBDA e : e.key # k)

\* mutant: a hit does not refresh the recency of the key
MoveToEndNoOp(c, k) == c

MoveToEnd(c, k) == Append(Remove(c, k), Entry(c, k))
KeyList(c) == [n \in 1..Len(c) |-> c[n].key]

\* reference model of recency: a successful get or set of k makes k the latest key;
\* keys that left the map are forgotten
Touched(order, k) == Append(SelectSeq(order, LAMBDA x : x # k), k)
Live(order, c) == SelectSeq(order, LAMBDA x : Has(c, x))

\* mutant: a ttl of zero is taken as a deadline
ExpiryZeroIsDeadline(t, ttl) == IF ttl >= 0 THEN t + ttl ELSE Inf

\* CacheEntry.__init__: expiry = time.time() + ttl if ttl > 0 else float('inf')
Expiry(t, ttl) == IF ttl > 0 THEN t + ttl ELSE Inf
\* mutant: the ttl argument is ignored in favour of the default
NewEntryIgnoresTtl(k, v, t, ttl) == [key |-> k, value |-> v, expiry |-> Expiry(t, default_ttl)]

NewEntry(k, v, t, ttl) == [key |-> k, value |-> v, expiry |-> Expiry(t, ttl)]


\* mutant: an entry expires already at its expiry instant
IsExpiredAtDeadline(e, t) == e.expiry # Inf /\ t >= e.expiry

\* CacheEntry.is_expired: time.time() > self.expiry
IsExpired(e, t) == e.expiry # Inf /\ t > e.expiry

\* ------------------------------------------- lock acquire / release
Acquire(t, from, to) ==
    /\ pc[t] = from
    /\ lock = NoThread
    /\ lock' = t
    /\ snap' = Shared
    /\ pc' = [pc EXCEPT ![t] = to]


\* mutant: the lock is still held after the return
ReleaseLeak(t, r) ==
    /\ UNCHANGED lock
    /\ snap' = NoSnap
    /\ pc' = [pc EXCEPT ![t] = call[t].cont]
    /\ call' = [call EXCEPT ![t].ret = r]

\* leaving the `with self.lock:` block and returning r to the caller
Release(t, r) ==
    /\ lock' = NoThread
    /\ snap' = NoSnap
    /\ pc' = [pc EXCEPT ![t] = call[t].cont]
    /\ call' = [call EXCEPT ![t].ret = r]

\* ---------------------------------------------------------- LRUCache.get
GetAcquire(t) ==
    /\ Acquire(t, "get", "get_body")
    /\ UNCHANGED <<cacheVars, cfgVars, now, storeVars, loc, call, touch, calls>>


\* mutant: a hit is not counted
GetBodyHitUncounted(t) ==
    /\ pc[t] = "get_body"
    /\ LET k == call[t].key IN
       IF ~Has(cache, k)
       THEN /\ misses' = misses + 1
            /\ Release(t, None)
            /\ UNCHANGED <<cache, hits, touch>>
       ELSE IF IsExpired(Entry(cache, k), now)
       THEN /\ cache' = Remove(cache, k)
            /\ misses' = misses + 1
            /\ touch' = Live(touch, cache')
            /\ Release(t, None)
            /\ UNCHANGED hits
       ELSE /\ cache' = MoveToEnd(cache, k)
            /\ touch' = Touched(touch, k)
            /\ Release(t, Entry(cache, k).value)
            /\ UNCHANGED <<hits, misses>>
    /\ UNCHANGED <<evictions, cfgVars, now, storeVars, loc, calls>>

\* mutant: an expired entry found by get is reported absent but left in the map
GetBodyKeepsExpired(t) ==
    /\ pc[t] = "get_body"
    /\ LET k == call[t].key IN
       IF ~Has(cache, k) \/ IsExpired(Entry(cache, k), now)
       THEN /\ misses' = misses + 1
            /\ Release(t, None)
            /\ UNCHANGED <<cache, hits, touch>>
       ELSE /\ cache' = MoveToEnd(cache, k)
            /\ hits' = hits + 1
            /\ touch' = Touched(touch, k)
            /\ Release(t, Entry(cache, k).value)
            /\ UNCHANGED misses
    /\ UNCHANGED <<evictions, cfgVars, now, storeVars, loc, calls>>


\* mutant: a hit renews the deadline of the entry
GetBodyRenews(t) ==
    /\ pc[t] = "get_body"
    /\ LET k == call[t].key IN
       IF ~Has(cache, k)
       THEN /\ misses' = misses + 1
            /\ Release(t, None)
            /\ UNCHANGED <<cache, hits, touch>>
       ELSE IF IsExpired(Entry(cache, k), now)
       THEN /\ cache' = Remove(cache, k)
            /\ misses' = misses + 1
            /\ touch' = Live(touch, cache')
            /\ Release(t, None)
            /\ UNCHANGED hits
       ELSE /\ cache' = Append(Remove(cache, k),
                               [Entry(cache, k) EXCEPT !.expiry = Expiry(now, default_ttl)])
            /\ hits' = hits + 1
            /\ touch' = Touched(touch, k)
            /\ Release(t, Entry(cache, k).value)
            /\ UNCHANGED misses
    /\ UNCHANGED <<evictions, cfgVars, now, storeVars, loc, calls>>

GetBody(t) ==
    /\ pc[t] = "get_body"
    /\ LET k == call[t].key IN
       IF ~Has(cache, k)
       THEN /\ misses' = misses + 1
            /\ Release(t, None)
            /\ UNCHANGED <<cache, hits, touch>>
       ELSE IF IsExpired(Entry(cache, k), now)
       THEN /\ cache' = Remove(cache, k)
            /\ misses' = misses + 1
            /\ touch' = Live(touch, cache')
            /\ Release(t, None)
            /\ UNCHANGED hits
       ELSE /\ cache' = MoveToEnd(cache, k)
            /\ hits' = hits + 1
            /\ touch' = Touched(touch, k)
            /\ Release(t, Entry(cache, k).value)
            /\ UNCHANGED misses
    /\ UNCHANGED <<evictions, cfgVars, now, storeVars, loc, calls>>

\* ---------------------------------------------------------- LRUCache.set
SetAcquire(t) ==
    /\ Acquire(t, "set", "set_insert")
    /\ UNCHANGED <<cacheVars, cfgVars, now, storeVars, loc, call, touch, calls>>


\* mutant: the old entry of the key is not dropped before the new one is added
SetInsertKeepsOld(t) ==
    /\ pc[t] = "set_insert"
    /\ LET k == call[t].key
           ttl == IF call[t].ttl = None THEN default_ttl ELSE call[t].ttl.ttl
       IN /\ cache' = Append(cache, NewEntry(k, call[t].value, now, ttl))
          /\ touch' = Touched(touch, k)
    /\ call' = [call EXCEPT ![t].at = now]
    /\ pc' = [pc EXCEPT ![t] = "set_evict"]
    /\ UNCHANGED <<hits, misses, evictions, cfgVars, lock, now, storeVars, loc,
                   snap, calls>>

\* lines 95-103: default ttl, drop the old entry, add the new one at the end
SetInsert(t) ==
    /\ pc[t] = "set_insert"
    /\ LET k == call[t].key
           ttl == IF call[t].ttl = None THEN default_ttl ELSE call[t].ttl.ttl
       IN /\ cache' = Append(Remove(cache, k), NewEntry(k, call[t].value, now, ttl))
          /\ touch' = Touched(touch, k)
    /\ call' = [call EXCEPT ![t].at = now]
    /\ pc' = [pc EXCEPT ![t] = "set_evict"]
    /\ UNCHANGED <<hits, misses, evictions, cfgVars, lock, now, storeVars, loc,
                   snap, calls>>


\* mutant: eviction threshold off by one
SetEvictOffByOne(t) ==
    /\ pc[t] = "set_evict"
    /\ IF Len(cache) > max_size + 1
       THEN /\ cache' = Tail(cache)
            /\ evictions' = evictions + 1
       ELSE UNCHANGED <<cache, evictions>>
    /\ touch' = Live(touch, cache')
    /\ Release(t, None)
    /\ UNCHANGED <<hits, misses, cfgVars, now, storeVars, loc, calls>>


\* mutant: when the map is over its capacity an expired entry is dropped, if there is
\* one, before the least recently used
SetEvictExpiredFirst(t) ==
    /\ pc[t] = "set_evict"
    /\ IF Len(cache) > max_size
       THEN /\ LET dead == {n \in 1..Len(cache) : IsExpired(cache[n], now)}
                   n == IF dead = {} THEN 1 ELSE CHOOSE m \in dead : \A o \in dead : m <= o
               IN cache' = Remove(cache, cache[n].key)
            /\ evictions' = evictions + 1
       ELSE UNCHANGED <<cache, evictions>>
    /\ touch' = Live(touch, cache')
    /\ Release(t, None)
    /\ UNCHANGED <<hits, misses, cfgVars, now, storeVars, loc, calls>>

\* lines 106-108: popitem(last=False) when over max_size
SetEvict(t) ==
    /\ pc[t] = "set_evict"
    /\ IF Len(cache) > max_size
       THEN /\ cache' = Tail(cache)
            /\ evictions' = evictions + 1
       ELSE UNCHANGED <<cache, evictions>>
    /\ touch' = Live(touch, cache')
    /\ Release(t, None)
    /\ UNCHANGED <<hits, misses, cfgVars, now, storeVars, loc, calls>>

\* ------------------------------------------------------- LRUCache.delete
DeleteAcquire(t) ==
    /\ Acquire(t, "delete", "delete_body")
    /\ UNCHANGED <<cacheVars, cfgVars, now, storeVars, loc, call, touch, calls>>


\* mutant: a delete is counted as an eviction
DeleteBodyCountsEviction(t) ==
    /\ pc[t] = "delete_body"
    /\ IF Has(cache, call[t].key)
       THEN /\ cache' = Remove(cache, call[t].key)
            /\ evictions' = evictions + 1
            /\ Release(t, Bool(TRUE))
       ELSE /\ UNCHANGED <<cache, evictions>>
            /\ Release(t, Bool(FALSE))
    /\ touch' = Live(touch, cache')
    /\ UNCHANGED <<hits, misses, cfgVars, now, storeVars, loc, calls>>

DeleteBody(t) ==
    /\ pc[t] = "delete_body"
    /\ IF Has(cache, call[t].key)
       THEN /\ cache' = Remove(cache, call[t].key)
            /\ Release(t, Bool(TRUE))
       ELSE /\ UNCHANGED cache
            /\ Release(t, Bool(FALSE))
    /\ touch' = Live(touch, cache')
    /\ UNCHANGED <<hits, misses, evictions, cfgVars, now, storeVars, loc, calls>>

\* -------------------------------------------------------- LRUCache.clear
ClearAcquire(t) ==
    /\ Acquire(t, "clear", "clear_body")
    /\ UNCHANGED <<cacheVars, cfgVars, now, storeVars, loc, call, touch, calls>>


\* mutant: the miss counter survives a clear
ClearBodyKeepsMisses(t) ==
    /\ pc[t] = "clear_body"
    /\ cache' = <<>>
    /\ hits' = 0
    /\ evictions' = 0
    /\ touch' = <<>>
    /\ Release(t, None)
    /\ UNCHANGED <<misses, cfgVars, now, storeVars, loc, calls>>

ClearBody(t) ==
    /\ pc[t] = "clear_body"
    /\ cache' = <<>>
    /\ hits' = 0
    /\ misses' = 0
    /\ evictions' = 0
    /\ touch' = <<>>
    /\ Release(t, None)
    /\ UNCHANGED <<cfgVars, now, storeVars, loc, calls>>

\* ---------------------------------------------------- LRUCache.get_stats

\* mutant: the rate is cut to two decimals instead of rounded
HitRateTruncated(h, m) == IF h + m > 0 THEN (h * 10000) \div (h + m) ELSE 0

\* round(hits / total * 100, 2) in hundredths of a percent, ties to even
HitRate(h, m) ==
    IF h + m > 0
    THEN LET n == h * 10000
             d == h + m
             q == n \div d
             r == n % d
         IN IF 2 * r > d \/ (2 * r = d /\ q % 2 = 1) THEN q + 1 ELSE q
    ELSE 0

Stats(c, h, m, e, ms) ==
    [size |-> Len(c), max_size |-> ms, hits |-> h, misses |-> m, evictions |-> e,
     hit_rate |-> HitRate(h, m)]

StatsAcquire(t) ==
    /\ Acquire(t, "stats", "stats_body")
    /\ UNCHANGED <<cacheVars, cfgVars, now, storeVars, loc, call, touch, calls>>

StatsBody(t) ==
    /\ pc[t] = "stats_body"
    /\ Release(t, Stats(cache, hits, misses, evictions, max_size))
    /\ UNCHANGED <<cacheVars, cfgVars, now, storeVars, loc, touch, calls>>

\* ----------------------------------------------- LRUCache.cleanup_expired
CleanupAcquire(t) ==
    /\ Acquire(t, "cleanup", "cleanup_scan")
    /\ UNCHANGED <<cacheVars, cfgVars, now, storeVars, loc, call, touch, calls>>

\* lines 157-160: the list of expired keys
CleanupScan(t) ==
    /\ pc[t] = "cleanup_scan"
    /\ LET expired_keys == KeyList(SelectSeq(cache, LAMBDA e : IsExpired(e, now)))
       IN call' = [call EXCEPT ![t].todo = expired_keys, ![t].count = Len(expired_keys),
                               ![t].at = now]
    /\ pc' = [pc EXCEPT ![t] = "cleanup_del"]
    /\ UNCHANGED <<cacheVars, cfgVars, lock, now, storeVars, loc, snap, touch, calls>>

\* lines 162-163: one `del self.cache[key]`
CleanupDel(t) ==
    /\ pc[t] = "cleanup_del"
    /\ call[t].todo # <<>>
    /\ cache' = Remove(cache, Head(call[t].todo))
    /\ call' = [call EXCEPT ![t].todo = Tail(call[t].todo)]
    /\ touch' = Live(touch, cache')
    /\ UNCHANGED <<hits, misses, evictions, cfgVars, lock, now, storeVars, pc, loc,
                   snap, calls>>


\* mutant: the removals are counted as evictions
CleanupReturnCountsEvictions(t) ==
    /\ pc[t] = "cleanup_del"
    /\ call[t].todo = <<>>
    /\ evictions' = evictions + call[t].count
    /\ Release(t, [n |-> call[t].count])
    /\ UNCHANGED <<cache, hits, misses, cfgVars, now, storeVars, loc, touch, calls>>

\* line 165
CleanupReturn(t) ==
    /\ pc[t] = "cleanup_del"
    /\ call[t].todo = <<>>
    /\ Release(t, [n |-> call[t].count])
    /\ UNCHANGED <<cacheVars, cfgVars, now, storeVars, loc, touch, calls>>

\* --------------------------------- CachedUserStore._invalidate_user_cache

\* mutant: the duplicate flag is forgotten
KeysToInvalidateNoDup(email, user_id) == <<EmailKey(email), IdKey(user_id)>>

\* lines 347-351, computed before the lock is taken
KeysToInvalidate(email, user_id) == <<EmailKey(email), IdKey(user_id), DupKey(email)>>


\* mutant: _invalidate_user_cache without `with self.cache.lock`
InvAcquireUnlocked(t) ==
    /\ pc[t] = "inv"
    /\ pc' = [pc EXCEPT ![t] = "inv_pop"]
    /\ UNCHANGED <<cacheVars, cfgVars, lock, snap, now, storeVars, loc, call, touch,
                   calls>>

InvAcquire(t) ==
    /\ Acquire(t, "inv", "inv_pop")
    /\ UNCHANGED <<cacheVars, cfgVars, now, storeVars, loc, call, touch, calls>>


\* mutant: a key dropped by _invalidate_user_cache is counted as an eviction
InvPopCountsEviction(t) ==
    /\ pc[t] = "inv_pop"
    /\ call[t].todo # <<>>
    /\ cache' = Remove(cache, Head(call[t].todo))
    /\ evictions' = IF Has(cache, Head(call[t].todo)) THEN evictions + 1 ELSE evictions
    /\ call' = [call EXCEPT ![t].todo = Tail(call[t].todo)]
    /\ touch' = Live(touch, cache')
    /\ UNCHANGED <<hits, misses, cfgVars, lock, now, storeVars, pc, loc, snap, calls>>

\* line 356: self.cache.cache.pop(key, None)
InvPop(t) ==
    /\ pc[t] = "inv_pop"
    /\ call[t].todo # <<>>
    /\ cache' = Remove(cache, Head(call[t].todo))
    /\ call' = [call EXCEPT ![t].todo = Tail(call[t].todo)]
    /\ touch' = Live(touch, cache')
    /\ UNCHANGED <<hits, misses, evictions, cfgVars, lock, now, storeVars, pc, loc,
                   snap, calls>>

InvReturn(t) ==
    /\ pc[t] = "inv_pop"
    /\ call[t].todo = <<>>
    /\ Release(t, None)
    /\ UNCHANGED <<cacheVars, cfgVars, now, storeVars, loc, touch, calls>>

\* ------------------------------------- CachedUserStore._matches_pattern
HasStar(p) == \E n \in 1..Len(p) : p[n] = "*"
StartsWith(s, p) == Len(p) <= Len(s) /\ SubSeq(s, 1, Len(p)) = p
EndsWith(s, p) == Len(p) <= Len(s) /\ SubSeq(s, Len(s) - Len(p) + 1, Len(s)) = p

MatchesPattern(key, pattern) ==
    IF ~HasStar(pattern) THEN key = pattern
    ELSE IF pattern[Len(pattern)] = "*"
    THEN StartsWith(key, SubSeq(pattern, 1, Len(pattern) - 1))
    ELSE IF pattern[1] = "*"
    THEN EndsWith(key, SubSeq(pattern, 2, Len(pattern)))
    ELSE LET i == CHOOSE n \in 1..Len(pattern) :
                      pattern[n] = "*" /\ \A m \in 1..(n - 1) : pattern[m] # "*"
         IN /\ StartsWith(key, SubSeq(pattern, 1, i - 1))
            /\ EndsWith(key, SubSeq(pattern, i + 1, Len(pattern)))

\* ------------------------------------ CachedUserStore.invalidate_pattern
PatAcquire(t) ==
    /\ Acquire(t, "pat", "pat_scan")
    /\ UNCHANGED <<cacheVars, cfgVars, now, storeVars, loc, call, touch, calls>>

\* lines 368-371
PatScan(t) ==
    /\ pc[t] = "pat_scan"
    /\ LET keys_to_delete ==
               SelectSeq(KeyList(cache), LAMBDA k : MatchesPattern(k, call[t].pattern))
       IN call' = [call EXCEPT ![t].todo = keys_to_delete]
    /\ pc' = [pc EXCEPT ![t] = "pat_del"]
    /\ UNCHANGED <<cacheVars, cfgVars, lock, now, storeVars, loc, snap, touch, calls>>


\* mutant: the loop of invalidate_pattern does not advance
PatDelStuck(t) ==
    /\ pc[t] = "pat_del"
    /\ call[t].todo # <<>>
    /\ cache' = Remove(cache, Head(call[t].todo))
    /\ touch' = Live(touch, cache')
    /\ UNCHANGED <<hits, misses, evictions, cfgVars, lock, now, storeVars, pc, loc,
                   call, snap, calls>>

\* lines 374-375: one `del self.cache.cache[key]`
PatDel(t) ==
    /\ pc[t] = "pat_del"
    /\ call[t].todo # <<>>
    /\ cache' = Remove(cache, Head(call[t].todo))
    /\ call' = [call EXCEPT ![t].todo = Tail(call[t].todo)]
    /\ touch' = Live(touch, cache')
    /\ UNCHANGED <<hits, misses, evictions, cfgVars, lock, now, storeVars, pc, loc,
                   snap, calls>>

PatReturn(t) ==
    /\ pc[t] = "pat_del"
    /\ call[t].todo = <<>>
    /\ Release(t, None)
    /\ UNCHANGED <<cacheVars, cfgVars, now, storeVars, loc, touch, calls>>

\* ------------------------------------------------------------ the clock
Tick ==
    /\ now < MaxClock
    /\ now' = now + 1
    /\ UNCHANGED <<cacheVars, cfgVars, lock, storeVars, pc, loc, call, snap, touch,
                   calls>>

\* the clock advancing while no call is in progress
TickIdle ==
    /\ \A t \in Threads : pc[t] = "idle"
    /\ Tick

\* ------------------------------------------------ frames of cache calls
GetFrame(k, cont) == [NoCall EXCEPT !.op = "get", !.key = k, !.cont = cont]
SetFrame(k, v, ttl, cont) ==
    [NoCall EXCEPT !.op = "set", !.key = k, !.value = v, !.ttl = ttl, !.cont = cont]
DeleteFrame(k, cont) == [NoCall EXCEPT !.op = "delete", !.key = k, !.cont = cont]
ClearFrame(cont) == [NoCall EXCEPT !.op = "clear", !.cont = cont]
StatsFrame(cont) == [NoCall EXCEPT !.op = "get_stats", !.cont = cont]
CleanupFrame(cont) == [NoCall EXCEPT !.op = "cleanup_expired", !.cont = cont]
InvFrame(email, user_id, cont) ==
    [NoCall EXCEPT !.op = "_invalidate_user_cache", !.keys = KeysToInvalidate(email, user_id),
                   !.todo = KeysToInvalidate(email, user_id), !.cont = cont]
PatFrame(p, cont) == [NoCall EXCEPT !.op = "invalidate_pattern", !.pattern = p, !.cont = cont]

\* ------------------------------------------ client calls on the LRUCache
KeysLRU == {EmailKey(<<"a">>), IdKey(<<"1">>), DupKey(<<"a">>)}
ValuesLRU == {Bool(TRUE), UserData(<<"a">>, <<"1">>, "v1")}
TtlArgs == {None, Some(0)}
PatternsLRU == {<<"e", "m", "a", "i", "l", ":", "*">>, <<"*", ":", "a">>, IdKey(<<"1">>)}

Begin(t, first) ==
    /\ pc[t] = "idle"
    /\ calls > 0
    /\ calls' = calls - 1
    /\ pc' = [pc EXCEPT ![t] = first]
    /\ UNCHANGED <<cacheVars, cfgVars, lock, now, storeVars, snap, touch>>

CallGet(t, K) ==
    /\ Begin(t, "get")
    /\ \E k \in K :
        /\ loc' = [loc EXCEPT ![t] = [NoLoc EXCEPT !.op = "get", !.key = k]]
        /\ call' = [call EXCEPT ![t] = GetFrame(k, "lru_ret")]

CallSet(t, K, V, T) ==
    /\ Begin(t, "set")
    /\ \E k \in K, v \in V, ttl \in T :
        /\ loc' = [loc EXCEPT ![t] = [NoLoc EXCEPT !.op = "set", !.key = k]]
        /\ call' = [call EXCEPT ![t] = SetFrame(k, v, ttl, "lru_ret")]

CallDelete(t, K) ==
    /\ Begin(t, "delete")
    /\ \E k \in K :
        /\ loc' = [loc EXCEPT ![t] = [NoLoc EXCEPT !.op = "delete", !.key = k]]
        /\ call' = [call EXCEPT ![t] = DeleteFrame(k, "lru_ret")]

CallClear(t) ==
    /\ Begin(t, "clear")
    /\ loc' = [loc EXCEPT ![t] = [NoLoc EXCEPT !.op = "clear"]]
    /\ call' = [call EXCEPT ![t] = ClearFrame("lru_ret")]

CallStats(t) ==
    /\ Begin(t, "stats")
    /\ loc' = [loc EXCEPT ![t] = [NoLoc EXCEPT !.op = "get_stats"]]
    /\ call' = [call EXCEPT ![t] = StatsFrame("lru_ret")]

CallCleanup(t) ==
    /\ Begin(t, "cleanup")
    /\ loc' = [loc EXCEPT ![t] = [NoLoc EXCEPT !.op = "cleanup_expired"]]
    /\ call' = [call EXCEPT ![t] = CleanupFrame("lru_ret")]

CallInvalidate(t, E, I) ==
    /\ Begin(t, "inv")
    /\ \E e \in E, i \in I :
        /\ loc' = [loc EXCEPT ![t] = [NoLoc EXCEPT !.op = "_invalidate_user_cache",
                                                   !.email = e, !.uid = i]]
        /\ call' = [call EXCEPT ![t] = InvFrame(e, i, "lru_ret")]

CallPattern(t, P) ==
    /\ Begin(t, "pat")
    /\ \E p \in P :
        /\ loc' = [loc EXCEPT ![t] = [NoLoc EXCEPT !.op = "invalidate_pattern",
                                                   !.pattern = p]]
        /\ call' = [call EXCEPT ![t] = PatFrame(p, "lru_ret")]

\* the cache call has returned to the client
LRUReturn(t) ==
    /\ pc[t] = "lru_ret"
    /\ pc' = [pc EXCEPT ![t] = "idle"]
    /\ loc' = [loc EXCEPT ![t] = NoLoc]
    /\ call' = [call EXCEPT ![t] = NoCall]
    /\ UNCHANGED <<cacheVars, cfgVars, lock, now, storeVars, snap, touch, calls>>

\* ------------------------------------------------------------ LRUCache.__init__
InitCache ==
    /\ cache = <<>>
    /\ hits = 0
    /\ misses = 0
    /\ evictions = 0
    /\ lock = NoThread

InitRest ==
    /\ now = 0
    /\ pc = [t \in Threads |-> "idle"]
    /\ loc = [t \in Threads |-> NoLoc]
    /\ call = [t \in Threads |-> NoCall]
    /\ snap = NoSnap
    /\ touch = <<>>
    /\ heap = <<>>

\* InMemoryUserStore.__init__ / FileBasedUserStore._initialize_file
InitStore ==
    /\ users = EmptyMap
    /\ users_by_id = EmptyMap

\* two client threads on one LRUCache(max_size=2, default_ttl=1)
Init ==
    /\ InitCache
    /\ InitRest
    /\ InitStore
    /\ max_size = 2
    /\ default_ttl = 1
    /\ store_kind = "memory"
    /\ calls = MaxCalls

CacheStep(t) ==
    \/ GetAcquire(t) \/ GetBody(t)
    \/ SetAcquire(t) \/ SetInsert(t) \/ SetEvict(t)
    \/ ClearAcquire(t) \/ ClearBody(t)
    \/ StatsAcquire(t) \/ StatsBody(t)
    \/ CleanupAcquire(t) \/ CleanupScan(t) \/ CleanupDel(t) \/ CleanupReturn(t)
    \/ InvAcquire(t) \/ InvPop(t) \/ InvReturn(t)
    \/ PatAcquire(t) \/ PatScan(t) \/ PatDel(t) \/ PatReturn(t)

LRUStep(t) ==
    \/ CacheStep(t)
    \/ DeleteAcquire(t) \/ DeleteBody(t)
    \/ LRUReturn(t)

Next ==
    \/ \E t \in Threads :
        \/ CallGet(t, KeysLRU) \/ CallSet(t, KeysLRU, ValuesLRU, TtlArgs)
        \/ CallDelete(t, KeysLRU) \/ CallClear(t) \/ CallStats(t) \/ CallCleanup(t)
        \/ CallInvalidate(t, {<<"a">>}, {<<"1">>}) \/ CallPattern(t, PatternsLRU)
        \/ LRUStep(t)
    \/ Tick

Spec == Init /\ [][Next]_vars

\* one client thread on one LRUCache, max_size and default_ttl chosen at construction
KeysOne == KeysLRU
TtlArgsOne == {None, Some(0), Some(1), Some(-1)}
MaxCallsOne == 4

InitOne ==
    /\ InitCache
    /\ InitRest
    /\ InitStore
    /\ max_size \in {1, 2}
    /\ default_ttl = 2
    /\ store_kind = "memory"
    /\ calls = MaxCallsOne

NextOne ==
    \/ \E t \in {"t1"} :
        \/ CallGet(t, KeysOne) \/ CallSet(t, KeysOne, ValuesLRU, TtlArgsOne)
        \/ CallDelete(t, KeysOne) \/ CallClear(t) \/ CallStats(t) \/ CallCleanup(t)
        \/ CallInvalidate(t, {<<"a">>}, {<<"1">>}) \/ CallPattern(t, PatternsLRU)
        \/ LRUStep(t)
    \/ Tick

SpecOne == InitOne /\ [][NextOne]_vars

\* one client that sets, gets, clears and asks for the statistics, as in test_cache_stats
KeysStats == {EmailKey(<<"a">>), IdKey(<<"1">>)}
ValuesStats == {Bool(TRUE)}
MaxCallsStats == 5

InitStats ==
    /\ InitCache
    /\ InitRest
    /\ InitStore
    /\ max_size = 2
    /\ default_ttl = 1
    /\ store_kind = "memory"
    /\ calls = MaxCallsStats

NextStats ==
    \/ \E t \in {"t1"} :
        \/ CallGet(t, KeysStats) \/ CallSet(t, KeysStats, ValuesStats, {None})
        \/ CallClear(t) \/ CallStats(t)
        \/ GetAcquire(t) \/ GetBody(t)
        \/ SetAcquire(t) \/ SetInsert(t) \/ SetEvict(t)
        \/ ClearAcquire(t) \/ ClearBody(t)
        \/ StatsAcquire(t) \/ StatsBody(t)
        \/ LRUReturn(t)
    \/ Tick

SpecStats == InitStats /\ [][NextStats]_vars

\* a cache built with any capacity the constructor takes, then used by one client
MaxSizesCtor == {-1, 0, 1}
MaxCallsCtor == 3

InitCtor ==
    /\ InitCache
    /\ InitRest
    /\ InitStore
    /\ max_size \in MaxSizesCtor
    /\ default_ttl = 1
    /\ store_kind = "memory"
    /\ calls = MaxCallsCtor

NextCtor ==
    \/ \E t \in {"t1"} :
        \/ CallGet(t, KeysStats) \/ CallSet(t, KeysStats, ValuesStats, {None})
        \/ CallStats(t)
        \/ GetAcquire(t) \/ GetBody(t)
        \/ SetAcquire(t) \/ SetInsert(t) \/ SetEvict(t)
        \/ StatsAcquire(t) \/ StatsBody(t)
        \/ LRUReturn(t)
    \/ Tick

SpecCtor == InitCtor /\ [][NextCtor]_vars

\* ------------------------------------------------------------------
\* The backing store: InMemoryUserStore, or FileBasedUserStore whose
\* _save_data may fail (returns False) and whose file may lack its keys
\* (save_user raises KeyError).
\* ------------------------------------------------------------------
Raise(e) == [raise |-> e]
IsRaise(v) == "raise" \in DOMAIN v

\* check_duplicate: email.lower() in self.users
StoreCheckDuplicate(email) == Bool(Lower(email) \in DOMAIN users)
\* get_user_by_email: self.users.get(email.lower())
StoreGetByEmail(email) == Lookup(users, Lower(email))
\* get_user_by_id: self.users_by_id.get(user_id)
StoreGetById(user_id) == Lookup(users_by_id, user_id)
\* get_all_users: list(self.users.values()), as the set of its elements
StoreGetAll == [list |-> {users[k] : k \in DOMAIN users}]
\* get_user_count: len(self.users)
StoreCount == [n |-> Cardinality(DOMAIN users)]

SaveOutcomes == IF store_kind = "file" THEN {"ok", "false", "raise"} ELSE {"ok"}

\* save_user: the value returned (or the exception raised) in r
StoreSave(user_data, outcome, r) ==
    IF outcome = "ok"
    THEN /\ users' = Put(users, Lower(Contents(user_data).email), user_data)
         /\ users_by_id' = Put(users_by_id, Contents(user_data).user_id, user_data)
         /\ r = Bool(TRUE)
    ELSE /\ UNCHANGED storeVars
         /\ r = IF outcome = "false" THEN Bool(FALSE) ELSE Raise("KeyError")

DeleteOutcomes == IF store_kind = "file" THEN {"ok", "false"} ELSE {"ok"}

\* delete_user: `del users_by_id[user_id]` raises KeyError when the id is not filed;
\* InMemoryUserStore has removed the email by then, FileBasedUserStore has written nothing
StoreDelete(email, outcome, r) ==
    LET e == Lower(email)
        user_data == Lookup(users, e)
    IN IF user_data = None
       THEN /\ UNCHANGED storeVars
            /\ r = Bool(FALSE)
       ELSE IF user_data.user_id \notin DOMAIN users_by_id
       THEN /\ users' = IF store_kind = "memory" THEN Del(users, e) ELSE users
            /\ UNCHANGED users_by_id
            /\ r = Raise("KeyError")
       ELSE IF outcome = "ok"
       THEN /\ users' = Del(users, e)
            /\ users_by_id' = Del(users_by_id, user_data.user_id)
            /\ r = Bool(TRUE)
       ELSE /\ UNCHANGED storeVars
            /\ r = Bool(FALSE)

\* clear_all
StoreClear ==
    /\ users' = EmptyMap
    /\ users_by_id' = EmptyMap

\* ------------------------------------------------------------------
\* CachedUserStore
\* ------------------------------------------------------------------
quiet == <<cacheVars, cfgVars, lock, now, snap, touch>>

\* a client starts a CachedUserStore call
Enter(t, first, locals) ==
    /\ pc[t] = "idle"
    /\ calls > 0
    /\ calls' = calls - 1
    /\ pc' = [pc EXCEPT ![t] = first]
    /\ loc' = [loc EXCEPT ![t] = [locals EXCEPT !.pre = Shared, !.t0 = now]]
    /\ UNCHANGED <<quiet, storeVars>>

\* go to label `to` with locals l and the cache-call frame f
Goto(t, to, l, f) ==
    /\ pc' = [pc EXCEPT ![t] = to]
    /\ loc' = [loc EXCEPT ![t] = l]
    /\ call' = [call EXCEPT ![t] = f]
    /\ UNCHANGED <<quiet, calls>>

\* ---- check_duplicate, lines 208-221
CallCheckDuplicate(t, E) ==
    \E email \in E :
        /\ Enter(t, "get", [NoLoc EXCEPT !.op = "check_duplicate", !.email = email])
        /\ call' = [call EXCEPT ![t] = GetFrame(DupKey(email), "cd_got")]


\* mutant: `if cached:` in place of `if cached is not None:`
CdGotFalsy(t) ==
    /\ pc[t] = "cd_got"
    /\ LET cached == call[t].ret IN
       IF cached = Bool(TRUE)
       THEN Goto(t, "ret", [loc[t] EXCEPT !.cached = cached, !.result = cached], NoCall)
       ELSE Goto(t, "cd_store", [loc[t] EXCEPT !.cached = cached], NoCall)
    /\ UNCHANGED storeVars

CdGot(t) ==
    /\ pc[t] = "cd_got"
    /\ LET cached == call[t].ret IN
       IF cached # None
       THEN Goto(t, "ret", [loc[t] EXCEPT !.cached = cached, !.result = cached], NoCall)
       ELSE Goto(t, "cd_store", [loc[t] EXCEPT !.cached = cached], NoCall)
    /\ UNCHANGED storeVars

CdStore(t) ==
    /\ pc[t] = "cd_store"
    /\ LET result == StoreCheckDuplicate(loc[t].email) IN
       Goto(t, "set", [loc[t] EXCEPT !.result = result],
            SetFrame(DupKey(loc[t].email), result, None, "ret"))
    /\ UNCHANGED storeVars

\* ---- save_user, lines 233-248
CallSaveUser(t, R) ==
    \E user_data \in R :
        /\ Enter(t, "su_store", [NoLoc EXCEPT !.op = "save_user", !.data = user_data,
                                              !.email = Lower(Contents(user_data).email),
                                              !.uid = Contents(user_data).user_id])
        /\ UNCHANGED call


\* mutant: the cache is refreshed whatever the store answered
SuStoreUnchecked(t) ==
    /\ pc[t] = "su_store"
    /\ \E outcome \in SaveOutcomes, success \in {Bool(TRUE), Bool(FALSE), Raise("KeyError")} :
        /\ StoreSave(loc[t].data, outcome, success)
        /\ IF ~IsRaise(success)
           THEN Goto(t, "inv", [loc[t] EXCEPT !.success = success, !.result = success],
                     InvFrame(loc[t].email, loc[t].uid, "su_email"))
           ELSE Goto(t, "ret", [loc[t] EXCEPT !.success = success, !.result = success],
                     NoCall)

SuStore(t) ==
    /\ pc[t] = "su_store"
    /\ \E outcome \in SaveOutcomes, success \in {Bool(TRUE), Bool(FALSE), Raise("KeyError")} :
        /\ StoreSave(loc[t].data, outcome, success)
        /\ IF success = Bool(TRUE)
           THEN Goto(t, "inv", [loc[t] EXCEPT !.success = success, !.result = success],
                     InvFrame(loc[t].email, loc[t].uid, "su_email"))
           ELSE Goto(t, "ret", [loc[t] EXCEPT !.success = success, !.result = success],
                     NoCall)

SuEmail(t) ==
    /\ pc[t] = "su_email"
    /\ Goto(t, "set", loc[t], SetFrame(EmailKey(loc[t].email), loc[t].data, None, "su_id"))
    /\ UNCHANGED storeVars

SuId(t) ==
    /\ pc[t] = "su_id"
    /\ Goto(t, "set", loc[t], SetFrame(IdKey(loc[t].uid), loc[t].data, None, "su_dup"))
    /\ UNCHANGED storeVars


\* mutant: the duplicate flag is not written
SuDupSkipped(t) ==
    /\ pc[t] = "su_dup"
    /\ Goto(t, "ret", loc[t], NoCall)
    /\ UNCHANGED storeVars

SuDup(t) ==
    /\ pc[t] = "su_dup"
    /\ Goto(t, "set", loc[t], SetFrame(DupKey(loc[t].email), Bool(TRUE), None, "ret"))
    /\ UNCHANGED storeVars

\* ---- get_user_by_email, lines 260-276
CallGetByEmail(t, E) ==
    \E email \in E :
        /\ Enter(t, "get", [NoLoc EXCEPT !.op = "get_user_by_email", !.email = email])
        /\ call' = [call EXCEPT ![t] = GetFrame(EmailKey(email), "ge_got")]

GeGot(t) ==
    /\ pc[t] = "ge_got"
    /\ LET cached == call[t].ret IN
       IF cached # None
       THEN Goto(t, "ret", [loc[t] EXCEPT !.cached = cached, !.result = cached], NoCall)
       ELSE Goto(t, "ge_store", [loc[t] EXCEPT !.cached = cached], NoCall)
    /\ UNCHANGED storeVars


\* mutant: a record the store does not have is cached as None
GeStoreCachesNone(t) ==
    /\ pc[t] = "ge_store"
    /\ LET user_data == StoreGetByEmail(loc[t].email)
           l == [loc[t] EXCEPT !.user_data = user_data, !.result = user_data]
       IN IF user_data # None
          THEN Goto(t, "set", l, SetFrame(EmailKey(loc[t].email), user_data, None, "ge_id"))
          ELSE Goto(t, "set", l, SetFrame(EmailKey(loc[t].email), user_data, None, "ret"))
    /\ UNCHANGED storeVars

GeStore(t) ==
    /\ pc[t] = "ge_store"
    /\ LET user_data == StoreGetByEmail(loc[t].email)
           l == [loc[t] EXCEPT !.user_data = user_data, !.result = user_data]
       IN IF user_data # None
          THEN Goto(t, "set", l, SetFrame(EmailKey(loc[t].email), user_data, None, "ge_id"))
          ELSE Goto(t, "ret", l, NoCall)
    /\ UNCHANGED storeVars

GeId(t) ==
    /\ pc[t] = "ge_id"
    /\ Goto(t, "set", loc[t],
            SetFrame(IdKey(loc[t].user_data.user_id), loc[t].user_data, None, "ret"))
    /\ UNCHANGED storeVars

\* ---- get_user_by_id, lines 288-304
CallGetById(t, I) ==
    \E user_id \in I :
        /\ Enter(t, "get", [NoLoc EXCEPT !.op = "get_user_by_id", !.uid = user_id])
        /\ call' = [call EXCEPT ![t] = GetFrame(IdKey(user_id), "gi_got")]

GiGot(t) ==
    /\ pc[t] = "gi_got"
    /\ LET cached == call[t].ret IN
       IF cached # None
       THEN Goto(t, "ret", [loc[t] EXCEPT !.cached = cached, !.result = cached], NoCall)
       ELSE Goto(t, "gi_store", [loc[t] EXCEPT !.cached = cached], NoCall)
    /\ UNCHANGED storeVars

GiStore(t) ==
    /\ pc[t] = "gi_store"
    /\ LET user_data == StoreGetById(loc[t].uid)
           l == [loc[t] EXCEPT !.user_data = user_data, !.result = user_data]
       IN IF user_data # None
          THEN Goto(t, "set", l, SetFrame(IdKey(loc[t].uid), user_data, None, "gi_email"))
          ELSE Goto(t, "ret", l, NoCall)
    /\ UNCHANGED storeVars


\* mutant: get_user_by_id does not file the record under its email
GiEmailSkipped(t) ==
    /\ pc[t] = "gi_email"
    /\ Goto(t, "ret", loc[t], NoCall)
    /\ UNCHANGED storeVars

GiEmail(t) ==
    /\ pc[t] = "gi_email"
    /\ Goto(t, "set", loc[t],
            SetFrame(EmailKey(loc[t].user_data.email), loc[t].user_data, None, "ret"))
    /\ UNCHANGED storeVars

\* ---- get_all_users, line 313
CallGetAllUsers(t) ==
    /\ Enter(t, "ga_store", [NoLoc EXCEPT !.op = "get_all_users"])
    /\ UNCHANGED call

GaStore(t) ==
    /\ pc[t] = "ga_store"
    /\ Goto(t, "ret", [loc[t] EXCEPT !.result = StoreGetAll], NoCall)
    /\ UNCHANGED storeVars

\* ---- delete_user, lines 326-335
CallDeleteUser(t, E) ==
    \E email \in E :
        /\ Enter(t, "du_read", [NoLoc EXCEPT !.op = "delete_user", !.email = email])
        /\ UNCHANGED call

\* line 326
DuRead(t) ==
    /\ pc[t] = "du_read"
    /\ Goto(t, "du_store", [loc[t] EXCEPT !.user_data = StoreGetByEmail(loc[t].email)],
            NoCall)
    /\ UNCHANGED storeVars


\* mutant: the cache is invalidated whatever the store's delete returned
DuStoreUnchecked(t) ==
    /\ pc[t] = "du_store"
    /\ \E outcome \in DeleteOutcomes, success \in {Bool(TRUE), Bool(FALSE), Raise("KeyError")} :
        /\ StoreDelete(loc[t].email, outcome, success)
        /\ LET l == [loc[t] EXCEPT !.success = success, !.result = success] IN
           IF ~IsRaise(success) /\ loc[t].user_data # None
           THEN Goto(t, "inv", l, InvFrame(loc[t].email, loc[t].user_data.user_id, "ret"))
           ELSE Goto(t, "ret", l, NoCall)

\* lines 329-335
DuStore(t) ==
    /\ pc[t] = "du_store"
    /\ \E outcome \in DeleteOutcomes, success \in {Bool(TRUE), Bool(FALSE), Raise("KeyError")} :
        /\ StoreDelete(loc[t].email, outcome, success)
        /\ LET l == [loc[t] EXCEPT !.success = success, !.result = success] IN
           IF success = Bool(TRUE) /\ loc[t].user_data # None
           THEN Goto(t, "inv", l, InvFrame(loc[t].email, loc[t].user_data.user_id, "ret"))
           ELSE Goto(t, "ret", l, NoCall)

\* ---- invalidate_pattern, lines 366-375
CallInvalidatePattern(t, P) ==
    \E p \in P :
        /\ Enter(t, "pat", [NoLoc EXCEPT !.op = "invalidate_pattern", !.pattern = p])
        /\ call' = [call EXCEPT ![t] = PatFrame(p, "ret")]

\* ---- warm_cache, lines 410-422
CallWarmCache(t, EL, IL) ==
    \E emails \in EL, user_ids \in IL :
        /\ Enter(t, "wc_email", [NoLoc EXCEPT !.op = "warm_cache", !.emails = emails,
                                              !.user_ids = user_ids,
                                              !.args = [emails |-> emails,
                                                        user_ids |-> user_ids]])
        /\ UNCHANGED call

\* lines 411-414: the next email of the list
WcEmail(t) ==
    /\ pc[t] = "wc_email"
    /\ IF loc[t].emails = <<>>
       THEN Goto(t, "wc_id", loc[t], NoCall)
       ELSE LET email == Head(loc[t].emails)
                user_data == StoreGetByEmail(email)
                l == [loc[t] EXCEPT !.emails = Tail(@), !.user_data = user_data]
            IN IF user_data # None
               THEN Goto(t, "set", l, SetFrame(EmailKey(email), user_data, None, "wc_email2"))
               ELSE Goto(t, "wc_email", l, NoCall)
    /\ UNCHANGED storeVars


\* mutant: a record warmed by email is not filed under its id
WcEmail2Skipped(t) ==
    /\ pc[t] = "wc_email2"
    /\ Goto(t, "wc_email", loc[t], NoCall)
    /\ UNCHANGED storeVars

\* line 415
WcEmail2(t) ==
    /\ pc[t] = "wc_email2"
    /\ Goto(t, "set", loc[t],
            SetFrame(IdKey(loc[t].user_data.user_id), loc[t].user_data, None, "wc_email"))
    /\ UNCHANGED storeVars

\* lines 418-421: the next id of the list
WcId(t) ==
    /\ pc[t] = "wc_id"
    /\ IF loc[t].user_ids = <<>>
       THEN Goto(t, "ret", loc[t], NoCall)
       ELSE LET user_id == Head(loc[t].user_ids)
                user_data == StoreGetById(user_id)
                l == [loc[t] EXCEPT !.user_ids = Tail(@), !.user_data = user_data]
            IN IF user_data # None
               THEN Goto(t, "set", l, SetFrame(IdKey(user_id), user_data, None, "wc_id2"))
               ELSE Goto(t, "wc_id", l, NoCall)
    /\ UNCHANGED storeVars

\* line 422
WcId2(t) ==
    /\ pc[t] = "wc_id2"
    /\ Goto(t, "set", loc[t],
            SetFrame(EmailKey(loc[t].user_data.email), loc[t].user_data, None, "wc_id"))
    /\ UNCHANGED storeVars

\* ---- clear_all, lines 426-427
CallClearAll(t) ==
    /\ Enter(t, "ca_store", [NoLoc EXCEPT !.op = "clear_all"])
    /\ UNCHANGED call

CaStore(t) ==
    /\ pc[t] = "ca_store"
    /\ StoreClear
    /\ Goto(t, "clear", loc[t], ClearFrame("ret"))

\* ---- get_user_count, line 431
CallGetUserCount(t) ==
    /\ Enter(t, "gc_store", [NoLoc EXCEPT !.op = "get_user_count"])
    /\ UNCHANGED call

GcStore(t) ==
    /\ pc[t] = "gc_store"
    /\ Goto(t, "ret", [loc[t] EXCEPT !.result = StoreCount], NoCall)
    /\ UNCHANGED storeVars

\* ---- get_cache_stats, line 435, and cleanup_expired_cache, line 444
CallGetCacheStats(t) ==
    /\ Enter(t, "stats", [NoLoc EXCEPT !.op = "get_cache_stats"])
    /\ call' = [call EXCEPT ![t] = StatsFrame("ret_cache")]

CallCleanupExpiredCache(t) ==
    /\ Enter(t, "cleanup", [NoLoc EXCEPT !.op = "cleanup_expired_cache"])
    /\ call' = [call EXCEPT ![t] = CleanupFrame("ret_cache")]

\* return self.cache.get_stats() / return self.cache.cleanup_expired()
RetCache(t) ==
    /\ pc[t] = "ret_cache"
    /\ Goto(t, "ret", [loc[t] EXCEPT !.result = call[t].ret], NoCall)
    /\ UNCHANGED storeVars

\* ---- the call returns (or raises) to the client
Return(t) ==
    /\ pc[t] = "ret"
    /\ pc' = [pc EXCEPT ![t] = "idle"]
    /\ loc' = [loc EXCEPT ![t] = NoLoc]
    /\ call' = [call EXCEPT ![t] = NoCall]
    /\ UNCHANGED <<cacheVars, cfgVars, lock, now, storeVars, snap, touch, calls>>

\* the labels at which the next step is a call into the backing store
StoreLabels == {"cd_store", "su_store", "ge_store", "gi_store", "ga_store", "du_read",
                "du_store", "wc_email", "wc_id", "ca_store", "gc_store"}

\* one client of a CachedUserStore over an InMemoryUserStore; calls do not overlap
RecordsSeq == {UserData(<<"a">>, <<"1">>, "v1"), UserData(<<"A">>, <<"1">>, "v2"),
               UserData(<<"b">>, <<"1">>, "v1"), UserData(<<"a">>, <<"2">>, "v1")}
EmailsSeq == {<<"A">>, <<"b">>}
PatternsSeq == {<<"e", "m", "a", "i", "l", ":", "*">>}
WarmEmails == {<<>>, <<<<"a">>>>}
WarmIds == {<<>>, <<<<"1">>>>}
MaxCallsSeq == 4

InitSeq ==
    /\ InitCache
    /\ InitRest
    /\ InitStore
    /\ max_size \in {2, 3}
    /\ default_ttl = 1
    /\ store_kind = "memory"
    /\ calls = MaxCallsSeq

ReadStep(t) ==
    \/ CdGot(t) \/ CdStore(t)
    \/ GeGot(t) \/ GeStore(t) \/ GeId(t)
    \/ GiGot(t) \/ GiStore(t) \/ GiEmail(t)

WriteStep(t) ==
    \/ SuStore(t) \/ SuEmail(t) \/ SuId(t) \/ SuDup(t)
    \/ DuRead(t) \/ DuStore(t)

WarmStep(t) == WcEmail(t) \/ WcEmail2(t) \/ WcId(t) \/ WcId2(t)

CacheStepSeq(t) ==
    \/ GetAcquire(t) \/ GetBody(t)
    \/ SetAcquire(t) \/ SetInsert(t) \/ SetEvict(t)
    \/ InvAcquire(t) \/ InvPop(t) \/ InvReturn(t)
    \/ PatAcquire(t) \/ PatScan(t) \/ PatDel(t) \/ PatReturn(t)

NextSeq ==
    \/ \E t \in {"t1"} :
        \/ CallCheckDuplicate(t, EmailsSeq) \/ CallSaveUser(t, RecordsSeq)
        \/ CallGetByEmail(t, EmailsSeq) \/ CallGetById(t, UserIds)
        \/ CallDeleteUser(t, EmailsSeq) \/ CallInvalidatePattern(t, PatternsSeq)
        \/ CallWarmCache(t, WarmEmails, WarmIds)
        \/ ReadStep(t) \/ WriteStep(t) \/ WarmStep(t) \/ Return(t)
        \/ CacheStepSeq(t)
    \/ TickIdle

SpecSeq == InitSeq /\ [][NextSeq]_vars

\* the same client over a FileBasedUserStore, whose writes may fail
MaxCallsFile == 3

InitFile ==
    /\ InitCache
    /\ InitRest
    /\ InitStore
    /\ max_size = 3
    /\ default_ttl = 1
    /\ store_kind = "file"
    /\ calls = MaxCallsFile

SpecFile == InitFile /\ [][NextSeq]_vars

\* two clients of one CachedUserStore wrapped around a store that may already
\* hold a user
RecordsConc == {UserData(<<"a">>, <<"1">>, "v1"), UserData(<<"A">>, <<"1">>, "v2")}
EmailsConc == {<<"a">>}
IdsConc == {<<"1">>}
WarmEmailsConc == {<<<<"a">>>>}
WarmIdsConc == {<<<<"1">>>>}
MaxCallsConc == 2

InitConc ==
    /\ InitCache
    /\ InitRest
    /\ \/ InitStore
       \/ \E r \in {UserData(<<"a">>, <<"1">>, "v1")} :
            /\ users = Put(EmptyMap, Lower(r.email), r)
            /\ users_by_id = Put(EmptyMap, r.user_id, r)
    /\ max_size = 3
    /\ default_ttl = 1
    /\ store_kind = "memory"
    /\ calls = MaxCallsConc

PassThroughStep(t) == GaStore(t) \/ CaStore(t) \/ GcStore(t)

CacheStepConc(t) ==
    \/ GetAcquire(t) \/ GetBody(t)
    \/ SetAcquire(t) \/ SetInsert(t) \/ SetEvict(t)
    \/ InvAcquire(t) \/ InvPop(t) \/ InvReturn(t)
    \/ ClearAcquire(t) \/ ClearBody(t)

NextConc ==
    \/ \E t \in Threads :
        \/ CallCheckDuplicate(t, EmailsConc) \/ CallSaveUser(t, RecordsConc)
        \/ CallGetByEmail(t, EmailsConc) \/ CallGetById(t, IdsConc)
        \/ CallDeleteUser(t, EmailsConc) \/ CallWarmCache(t, WarmEmailsConc, WarmIdsConc)
        \/ CallGetAllUsers(t) \/ CallClearAll(t) \/ CallGetUserCount(t)
        \/ ReadStep(t) \/ WriteStep(t) \/ WarmStep(t) \/ PassThroughStep(t) \/ Return(t)
        \/ CacheStepConc(t)
    \/ Tick

SpecConc == InitConc /\ [][NextConc]_vars

\* two clients, each looking a record up or writing it
MaxCallsRace == 2

InitRace ==
    /\ InitCache
    /\ InitRest
    /\ \/ InitStore
       \/ \E r \in {UserData(<<"a">>, <<"1">>, "v1")} :
            /\ users = Put(EmptyMap, Lower(r.email), r)
            /\ users_by_id = Put(EmptyMap, r.user_id, r)
    /\ max_size = 3
    /\ default_ttl = 1
    /\ store_kind = "memory"
    /\ calls = MaxCallsRace

CacheStepRace(t) ==
    \/ GetAcquire(t) \/ GetBody(t)
    \/ SetAcquire(t) \/ SetInsert(t) \/ SetEvict(t)
    \/ InvAcquire(t) \/ InvPop(t) \/ InvReturn(t)

NextRace ==
    \/ \E t \in Threads :
        \/ CallCheckDuplicate(t, EmailsConc) \/ CallSaveUser(t, RecordsConc)
        \/ CallGetByEmail(t, EmailsConc) \/ CallGetById(t, IdsConc)
        \/ CallDeleteUser(t, EmailsConc)
        \/ ReadStep(t) \/ WriteStep(t) \/ Return(t)
        \/ CacheStepRace(t)
    \/ Tick

SpecRace == InitRace /\ [][NextRace]_vars

\* one client that saves records again under another email or another id, on a cache
\* with room for the keys of two records
MaxCallsResave == 3

InitResave ==
    /\ InitCache
    /\ InitRest
    /\ InitStore
    /\ max_size = 6
    /\ default_ttl = 1
    /\ store_kind = "memory"
    /\ calls = MaxCallsResave

NextResave ==
    \/ \E t \in {"t1"} :
        \/ CallSaveUser(t, RecordsSeq)
        \/ SuStore(t) \/ SuEmail(t) \/ SuId(t) \/ SuDup(t)
        \/ InvAcquire(t) \/ InvPop(t) \/ InvReturn(t)
        \/ SetAcquire(t) \/ SetInsert(t) \/ SetEvict(t)
        \/ Return(t)
    \/ TickIdle

SpecResave == InitResave /\ [][NextResave]_vars

\* two clients of one LRUCache under a fair scheduler: a thread that can take a step
\* of the call it is in eventually takes one
KeysLive == {EmailKey(<<"a">>), IdKey(<<"1">>)}
PatternsLive == {<<"e", "m", "a", "i", "l", ":", "*">>}
MaxCallsLive == 3

InitLive ==
    /\ InitCache
    /\ InitRest
    /\ InitStore
    /\ max_size = 1
    /\ default_ttl = 1
    /\ store_kind = "memory"
    /\ calls = MaxCallsLive

NextLive ==
    \/ \E t \in Threads :
        \/ CallGet(t, KeysLive) \/ CallSet(t, KeysLive, ValuesStats, {None})
        \/ CallDelete(t, KeysLive) \/ CallClear(t) \/ CallStats(t) \/ CallCleanup(t)
        \/ CallInvalidate(t, {<<"a">>}, {<<"1">>}) \/ CallPattern(t, PatternsLive)
        \/ LRUStep(t)
    \/ Tick

SpecLive == InitLive /\ [][NextLive]_vars /\ \A t \in Threads : WF_vars(LRUStep(t))

\* one client that fills the cache and invalidates by pattern; user ids are free-form
\* strings, so a key may itself hold a '*'
KeysPat == {EmailKey(<<"a">>), IdKey(<<"1">>), DupKey(<<"a">>), IdKey(<<"*", "1">>)}
PatternsPat ==
    {<<"e", "m", "a", "i", "l", ":", "*">>, <<"*", ":", "a">>, IdKey(<<"1">>),
     <<"i", "d", ":", "*", ":", "1">>, <<"d", "*", "a">>,
     <<"i", "d", ":", "*", "*">>, <<"*", "*">>}
MaxCallsPat == 4

InitPat ==
    /\ InitCache
    /\ InitRest
    /\ InitStore
    /\ max_size = 4
    /\ default_ttl = 1
    /\ store_kind = "memory"
    /\ calls = MaxCallsPat

NextPat ==
    \E t \in {"t1"} :
        \/ CallSet(t, KeysPat, ValuesStats, {None}) \/ CallPattern(t, PatternsPat)
        \/ SetAcquire(t) \/ SetInsert(t) \/ SetEvict(t)
        \/ PatAcquire(t) \/ PatScan(t) \/ PatDel(t) \/ PatReturn(t)
        \/ LRUReturn(t)

SpecPat == InitPat /\ [][NextPat]_vars

\* one client that warms the cache from a store holding two users and then looks
\* users up, as in test_warm_cache; "c" and "3" are unknown to the store
RecordsWarm == {UserData(<<"A">>, <<"1">>, "v1"), UserData(<<"b">>, <<"2">>, "v1")}
WarmEmailLists == {<<>>, <<<<"a">>>>, <<<<"c">>, <<"a">>>>}
WarmIdLists == {<<>>, <<<<"2">>>>, <<<<"3">>, <<"2">>, <<"1">>>>}
MaxCallsWarm == 2

InitWarm ==
    /\ InitCache
    /\ InitRest
    /\ users = [e \in {Lower(r.email) : r \in RecordsWarm} |->
                   CHOOSE r \in RecordsWarm : Lower(r.email) = e]
    /\ users_by_id = [i \in {r.user_id : r \in RecordsWarm} |->
                         CHOOSE r \in RecordsWarm : r.user_id = i]
    /\ max_size \in {1, 2, 4}
    /\ default_ttl = 1
    /\ store_kind = "memory"
    /\ calls = MaxCallsWarm

NextWarm ==
    \/ \E t \in {"t1"} :
        \/ CallWarmCache(t, WarmEmailLists, WarmIdLists)
        \/ CallGetByEmail(t, {<<"A">>, <<"c">>}) \/ CallGetById(t, {<<"2">>})
        \/ WarmStep(t)
        \/ GeGot(t) \/ GeStore(t) \/ GeId(t)
        \/ GiGot(t) \/ GiStore(t) \/ GiEmail(t)
        \/ GetAcquire(t) \/ GetBody(t)
        \/ SetAcquire(t) \/ SetInsert(t) \/ SetEvict(t)
        \/ Return(t)
    \/ TickIdle

SpecWarm == InitWarm /\ [][NextWarm]_vars

\* one client that looks a user up before and after the user is created, through
\* CachedUserStore.save_user or by a save_user on the wrapped store itself
RecordsMiss == {UserData(<<"a">>, <<"1">>, "v1"), UserData(<<"A">>, <<"1">>, "v2")}
MaxCallsMiss == 4

\* InMemoryUserStore.save_user called on the store object, not through the cache layer
StoreSaveUser(R) ==
    /\ \A t \in Threads : pc[t] = "idle"
    /\ calls > 0
    /\ calls' = calls - 1
    /\ \E user_data \in R : StoreSave(user_data, "ok", Bool(TRUE))
    /\ UNCHANGED <<quiet, pc, loc, call>>

InitMiss ==
    /\ InitCache
    /\ InitRest
    /\ InitStore
    /\ max_size \in {2, 4}
    /\ default_ttl = 1
    /\ store_kind = "memory"
    /\ calls = MaxCallsMiss

NextMiss ==
    \/ \E t \in {"t1"} :
        \/ CallGetByEmail(t, {<<"a">>, <<"A">>}) \/ CallGetById(t, {<<"1">>})
        \/ CallWarmCache(t, {<<<<"A">>>>}, {<<>>, <<<<"1">>>>})
        \/ CallSaveUser(t, RecordsMiss)
        \/ GeGot(t) \/ GeStore(t) \/ GeId(t)
        \/ GiGot(t) \/ GiStore(t) \/ GiEmail(t)
        \/ WarmStep(t)
        \/ SuStore(t) \/ SuEmail(t) \/ SuId(t) \/ SuDup(t)
        \/ GetAcquire(t) \/ GetBody(t)
        \/ SetAcquire(t) \/ SetInsert(t) \/ SetEvict(t)
        \/ InvAcquire(t) \/ InvPop(t) \/ InvReturn(t)
        \/ Return(t)
    \/ StoreSaveUser(RecordsMiss)
    \/ TickIdle

SpecMiss == InitMiss /\ [][NextMiss]_vars

\* one client that caches dict objects it goes on using: a value handed to set, or
\* returned by get, is a reference to an object of the heap (self.value = value,
\* return entry.value), and the client may assign to a key of any dict it holds
KeysAlias == {EmailKey(<<"a">>), IdKey(<<"1">>)}
MaxObjects == 2
MaxCallsAlias == 3

\* the dicts that differ from d in the value of one key
Assigned(d) ==
    {[d EXCEPT !.ver = v] : v \in Versions \ {d.ver}}
        \cup {[d EXCEPT !.user_id = i] : i \in UserIds \ {d.user_id}}

\* the client builds a dict
NewDict(t) ==
    /\ pc[t] = "idle"
    /\ Len(heap) < MaxObjects
    /\ \E v \in Versions : heap' = Append(heap, UserData(<<"a">>, <<"1">>, v))
    /\ UNCHANGED <<cacheVars, max_size, default_ttl, store_kind, lock, now, storeVars,
                   pc, loc, call, snap, touch, calls>>

\* the client assigns to a key of the dict that get has just returned
MutateReturned(t) ==
    /\ pc[t] = "lru_ret"
    /\ loc[t].op = "get"
    /\ IsRef(call[t].ret)
    /\ \E d \in Assigned(heap[call[t].ret.ref]) :
        heap' = [heap EXCEPT ![call[t].ret.ref] = d]
    /\ UNCHANGED <<cacheVars, max_size, default_ttl, store_kind, lock, now, storeVars,
                   pc, loc, call, snap, touch, calls>>

\* the client assigns to a key of a dict it built and may have passed to set
MutatePassed(t) ==
    /\ pc[t] = "idle"
    /\ \E n \in DOMAIN heap :
        \E d \in Assigned(heap[n]) : heap' = [heap EXCEPT ![n] = d]
    /\ UNCHANGED <<cacheVars, max_size, default_ttl, store_kind, lock, now, storeVars,
                   pc, loc, call, snap, touch, calls>>

InitAlias ==
    /\ InitCache
    /\ InitRest
    /\ InitStore
    /\ max_size = 2
    /\ default_ttl = 1
    /\ store_kind = "memory"
    /\ calls = MaxCallsAlias

NextAlias ==
    \E t \in {"t1"} :
        \/ NewDict(t) \/ MutateReturned(t) \/ MutatePassed(t)
        \/ CallSet(t, KeysAlias, {Ref(n) : n \in DOMAIN heap}, {None})
        \/ CallGet(t, KeysAlias)
        \/ GetAcquire(t) \/ GetBody(t)
        \/ SetAcquire(t) \/ SetInsert(t) \/ SetEvict(t)
        \/ LRUReturn(t)

SpecAlias == InitAlias /\ [][NextAlias]_vars

\* two clients that each save one state of the same user (same email up to case,
\* same id, different contents) through one CachedUserStore
RecordsSaves == {UserData(<<"a">>, <<"1">>, "v1"), UserData(<<"A">>, <<"1">>, "v2")}
MaxCallsSaves == 2

InitSaves ==
    /\ InitCache
    /\ InitRest
    /\ InitStore
    /\ max_size = 3
    /\ default_ttl = 1
    /\ store_kind = "memory"
    /\ calls = MaxCallsSaves

NextSaves ==
    \E t \in Threads :
        \/ CallSaveUser(t, RecordsSaves)
        \/ SuStore(t) \/ SuEmail(t) \/ SuId(t) \/ SuDup(t)
        \/ InvAcquire(t) \/ InvPop(t) \/ InvReturn(t)
        \/ SetAcquire(t) \/ SetInsert(t) \/ SetEvict(t)
        \/ Return(t)

SpecSaves == InitSaves /\ [][NextSaves]_vars

\* one client that saves dict objects through CachedUserStore.save_user over an
\* InMemoryUserStore and goes on using them: the store's two indexes and the cache
\* all keep the caller's object
MaxCallsShare == 2

InitShare ==
    /\ InitCache
    /\ InitRest
    /\ InitStore
    /\ max_size = 4
    /\ default_ttl = 1
    /\ store_kind = "memory"
    /\ calls = MaxCallsShare

NextShare ==
    \E t \in {"t1"} :
        \/ NewDict(t) \/ MutatePassed(t)
        \/ CallSaveUser(t, {Ref(n) : n \in DOMAIN heap})
        \/ SuStore(t) \/ SuEmail(t) \/ SuId(t) \/ SuDup(t)
        \/ InvAcquire(t) \/ InvPop(t) \/ InvReturn(t)
        \/ SetAcquire(t) \/ SetInsert(t) \/ SetEvict(t)
        \/ Return(t)

SpecShare == InitShare /\ [][NextShare]_vars

\* one client of a CachedUserStore with room for two entries that checks emails for
\* duplicates, each miss filing a dup: flag, reads the statistics and cleans up, while
\* the clock advances between its calls
EmailsEvict == {<<"a">>, <<"b">>, <<"c">>}
MaxCallsEvict == 5

InitEvict ==
    /\ InitCache
    /\ InitRest
    /\ InitStore
    /\ max_size = 2
    /\ default_ttl = 1
    /\ store_kind = "memory"
    /\ calls = MaxCallsEvict

NextEvict ==
    \/ \E t \in {"t1"} :
        \/ CallCheckDuplicate(t, EmailsEvict) \/ CdGot(t) \/ CdStore(t)
        \/ CallGetCacheStats(t) \/ CallCleanupExpiredCache(t) \/ RetCache(t)
        \/ GetAcquire(t) \/ GetBody(t)
        \/ SetAcquire(t) \/ SetInsert(t) \/ SetEvict(t)
        \/ StatsAcquire(t) \/ StatsBody(t)
        \/ CleanupAcquire(t) \/ CleanupScan(t) \/ CleanupDel(t) \/ CleanupReturn(t)
        \/ Return(t)
    \/ TickIdle

SpecEvict == InitEvict /\ [][NextEvict]_vars

\* one client that uses every operation of a cache of two or three entries while the
\* clock advances
MaxCallsCount == 5

InitCount ==
    /\ InitCache
    /\ InitRest
    /\ InitStore
    /\ max_size \in {2, 3}
    /\ default_ttl = 1
    /\ store_kind = "memory"
    /\ calls = MaxCallsCount

NextCount ==
    \/ \E t \in {"t1"} :
        \/ CallGet(t, KeysLRU) \/ CallSet(t, KeysLRU, {Bool(TRUE)}, {None})
        \/ CallDelete(t, KeysLRU) \/ CallClear(t) \/ CallStats(t) \/ CallCleanup(t)
        \/ CallInvalidate(t, {<<"a">>}, {<<"1">>}) \/ CallPattern(t, PatternsLive)
        \/ LRUStep(t)
    \/ TickIdle

SpecCount == InitCount /\ [][NextCount]_vars

\* ------------------------------------------------------------------
\* Thread bodies in the manner of test_thread_safety: each thread runs a loop
\* of cache.set and cache.get calls on keys of its own; `left` counts the
\* iterations to go and `wrote` is the thread's record of what it set.
\* ------------------------------------------------------------------
MaxOps == 2

WorkerKeys(t) ==
    IF t = "t1" THEN {EmailKey(<<"a">>), IdKey(<<"1">>)}
    ELSE {EmailKey(<<"b">>), IdKey(<<"2">>)}

WorkerStart(t) ==
    /\ pc[t] = "idle"
    /\ pc' = [pc EXCEPT ![t] = "w_next"]
    /\ loc' = [loc EXCEPT ![t] = [NoLoc EXCEPT !.op = "worker", !.left = MaxOps,
                                               !.wrote = EmptyMap]]
    /\ UNCHANGED <<quiet, storeVars, call, calls>>

WorkerNext(t) ==
    /\ pc[t] = "w_next"
    /\ IF loc[t].left = 0
       THEN Goto(t, "w_done", loc[t], NoCall)
       ELSE \E k \in WorkerKeys(t) :
              \/ \E v \in ValuesLRU :
                    Goto(t, "set", [loc[t] EXCEPT !.left = @ - 1, !.wrote = Put(@, k, v)],
                         SetFrame(k, v, None, "w_next"))
              \/ Goto(t, "get", [loc[t] EXCEPT !.left = @ - 1], GetFrame(k, "w_next"))
    /\ UNCHANGED <<quiet, storeVars, calls>>

\* LRUCache(max_size, default_ttl=10) as in TestLRUCache.setUp; the threads finish
\* well within the ttl, so the clock is left where it is
InitWorkers ==
    /\ InitCache
    /\ InitRest
    /\ InitStore
    /\ max_size \in {1, 2}
    /\ default_ttl = 10
    /\ store_kind = "memory"
    /\ calls = 0

NextWorkers ==
    \/ \E t \in Threads :
        \/ WorkerStart(t) \/ WorkerNext(t)
        \/ GetAcquire(t) \/ GetBody(t)
        \/ SetAcquire(t) \/ SetInsert(t) \/ SetEvict(t)

\* threads that can take a step are scheduled
SpecWorkers == InitWorkers /\ [][NextWorkers]_vars /\ WF_vars(NextWorkers)

\* ------------------------------------------------------------------
\* Sequential reference of the locked sections: the map and counters s
\* taken to the map and counters after the call, and the value returned.
\* ------------------------------------------------------------------
\* LRUCache.get, lines 66-82
SeqGet(s, k, t) ==
    IF ~Has(s.cache, k)
    THEN [s |-> [s EXCEPT !.misses = @ + 1], ret |-> None]
    ELSE IF IsExpired(Entry(s.cache, k), t)
    THEN [s |-> [s EXCEPT !.cache = Remove(@, k), !.misses = @ + 1], ret |-> None]
    ELSE [s |-> [s EXCEPT !.cache = MoveToEnd(@, k), !.hits = @ + 1],
          ret |-> Entry(s.cache, k).value]

\* LRUCache.set, lines 95-108
SeqSet(s, k, v, ttl, t, ms, dttl) ==
    LET eff == IF ttl = None THEN dttl ELSE ttl.ttl
        c1 == Append(Remove(s.cache, k), NewEntry(k, v, t, eff))
    IN IF Len(c1) > ms
       THEN [s |-> [s EXCEPT !.cache = Tail(c1), !.evictions = @ + 1], ret |-> None]
       ELSE [s |-> [s EXCEPT !.cache = c1], ret |-> None]

\* LRUCache.delete, lines 121-124
SeqDelete(s, k) ==
    [s |-> [s EXCEPT !.cache = Remove(@, k)], ret |-> Bool(Has(s.cache, k))]

\* LRUCache.clear, lines 129-132
SeqClear(s) == [s |-> NoSnap, ret |-> None]

\* LRUCache.get_stats, lines 137-147
SeqStats(s, ms) == [s |-> s, ret |-> Stats(s.cache, s.hits, s.misses, s.evictions, ms)]

\* LRUCache.cleanup_expired, lines 157-165
SeqCleanup(s, t) ==
    [s |-> [s EXCEPT !.cache = SelectSeq(@, LAMBDA e : ~IsExpired(e, t))],
     ret |-> [n |-> Len(SelectSeq(s.cache, LAMBDA e : IsExpired(e, t)))]]

\* CachedUserStore._invalidate_user_cache, lines 354-356
SeqInvalidate(s, keys) ==
    [s |-> [s EXCEPT !.cache = SelectSeq(@, LAMBDA e : \A n \in 1..Len(keys) : e.key # keys[n])],
     ret |-> None]

\* CachedUserStore.invalidate_pattern, lines 366-375
SeqPattern(s, p) ==
    [s |-> [s EXCEPT !.cache = SelectSeq(@, LAMBDA e : ~MatchesPattern(e.key, p))],
     ret |-> None]

\* the labels inside a `with lock:` block
LockedLabels == {"get_body", "set_insert", "set_evict", "delete_body", "clear_body",
                 "stats_body", "cleanup_scan", "cleanup_del", "inv_pop", "pat_scan",
                 "pat_del"}

\* ------------------------------------------------------------------ C1
\* C1: whenever no operation holds the lock, the map has at most max_size entries.
CapacityInv == lock = NoThread => Len(cache) <= max_size

C1Witness == lock = NoThread /\ Len(cache) = max_size /\ evictions > 0

\* ------------------------------------------------------------------ C2
TouchPos(k) == CHOOSE n \in 1..Len(touch) : touch[n] = k

\* the keys of `before` plus k, less the keys of `after`
RemovedKeys(before, k, after) == (KeysOf(before) \cup {k}) \ KeysOf(after)

\* C2: a set of an absent key that takes the map over max_size removes exactly one
\* entry, the one least recently touched by a successful get or set according to the
\* reference order `touch`, and adds one to evictions; any other set removes nothing
\* and leaves evictions unchanged.
LRUEvictionStep(t) ==
    (pc[t] = "set_evict" /\ pc'[t] # "set_evict") =>
        LET k == call[t].key
            gone == RemovedKeys(snap.cache, k, cache')
        IN /\ KeysOf(cache') \subseteq KeysOf(snap.cache) \cup {k}
           /\ IF ~Has(snap.cache, k) /\ Len(snap.cache) + 1 > max_size
              THEN /\ Cardinality(gone) = 1
                   /\ Len(cache') = Len(snap.cache)
                   /\ evictions' = snap.evictions + 1
                   /\ \A r \in gone : \A o \in KeysOf(cache') : TouchPos(r) < TouchPos(o)
              ELSE /\ gone = {}
                   /\ evictions' = snap.evictions

LRUEvictionRule == [][\A t \in Threads : LRUEvictionStep(t)]_vars

\* after two sets and a get hit, a third set on a full map of two has evicted one key
C2Witness ==
    \E t \in Threads :
        /\ pc[t] = "lru_ret"
        /\ call[t].op = "set"
        /\ max_size = 2
        /\ evictions = 1
        /\ hits = 1
        /\ misses = 0
        /\ KeyList(cache) = <<EmailKey(<<"a">>), DupKey(<<"a">>)>>
        /\ touch = KeyList(cache)

\* ------------------------------------------------------------------ C3
\* C3 (i): set with an effective ttl > 0 at clock value t files the entry with
\* deadline t + ttl.
TTLSetStep(t) ==
    (pc[t] = "set_insert" /\ pc'[t] # "set_insert") =>
        LET ttl == IF call[t].ttl = None THEN default_ttl ELSE call[t].ttl.ttl
        IN ttl > 0 => Entry(cache', call[t].key).expiry = now + ttl

\* C3 (ii): no step other than a set of that key changes the value or the deadline of
\* an entry that stays in the map.
TTLKeepStep ==
    \A k \in KeysOf(cache) \cap KeysOf(cache') :
        Entry(cache', k) # Entry(cache, k) =>
            \E t \in Threads : pc[t] = "set_insert" /\ call[t].key = k

\* C3 (iii): a get of a key whose entry has deadline d returns the value while the
\* clock has not passed d; after d it returns None and the entry leaves the map.
TTLGetStep(t) ==
    (pc[t] = "get_body" /\ pc'[t] # "get_body" /\ Has(cache, call[t].key)) =>
        LET e == Entry(cache, call[t].key)
        IN IF e.expiry # Inf /\ now > e.expiry
           THEN /\ call'[t].ret = None
                /\ ~Has(cache', e.key)
                /\ Len(cache') = Len(cache) - 1
           ELSE /\ call'[t].ret = e.value
                /\ Has(cache', e.key)

TTLExpiry == [][TTLKeepStep /\ \A t \in Threads : TTLSetStep(t) /\ TTLGetStep(t)]_vars

\* three calls: a set, a get that returned the entry, and a get after the deadline
\* that returned None and emptied the map
C3Witness ==
    \E t \in Threads :
        /\ pc[t] = "lru_ret"
        /\ call[t].op = "get"
        /\ call[t].ret = None
        /\ calls = MaxCallsOne - 3
        /\ hits = 1
        /\ misses = 1
        /\ evictions = 0
        /\ cache = <<>>
        /\ now > 1

\* ------------------------------------------------------------------ C9
MutualExclusion == \A t \in Threads : pc[t] \in LockedLabels <=> lock = t

\* what the locked section of thread t must have done when it releases the lock
SeqEffect(t) ==
    LET f == call[t] IN
    CASE f.op = "get" -> SeqGet(snap, f.key, now)
      [] f.op = "set" -> SeqSet(snap, f.key, f.value, f.ttl, f.at, max_size, default_ttl)
      [] f.op = "delete" -> SeqDelete(snap, f.key)
      [] f.op = "clear" -> SeqClear(snap)
      [] f.op = "get_stats" -> SeqStats(snap, max_size)
      [] f.op = "cleanup_expired" -> SeqCleanup(snap, f.at)
      [] f.op = "_invalidate_user_cache" -> SeqInvalidate(snap, f.keys)
      [] f.op = "invalidate_pattern" -> SeqPattern(snap, f.pattern)

ReleaseStep(t) ==
    (lock = t /\ lock' = NoThread) =>
        /\ Shared' = SeqEffect(t).s
        /\ call'[t].ret = SeqEffect(t).ret

\* C9: the locked sections exclude each other, and each one, from the lock's
\* acquisition to its release, takes the map and counters to, and returns, what the
\* sequential operation gives on the state it acquired the lock in; so every
\* execution equals the sequential one in lock order.
Linearizable == []MutualExclusion /\ [][\A t \in Threads : ReleaseStep(t)]_vars

\* one thread is part-way through a locked section that has already changed the map,
\* after an earlier get completed, while the other thread waits for the lock
C9Witness ==
    \E t \in Threads, u \in Threads :
        /\ t # u
        /\ lock = t
        /\ pc[t] \in {"set_evict", "inv_pop", "pat_del", "cleanup_del"}
        /\ cache # snap.cache
        /\ hits + misses > 0
        /\ pc[u] \in {"get", "set", "delete", "clear", "stats", "cleanup", "inv", "pat"}

\* ------------------------------------------------------------------ C4
AllIdle == \A t \in Threads : pc[t] = "idle"

EmailPrefix == <<"e", "m", "a", "i", "l", ":">>
IdPrefix == <<"i", "d", ":">>
DupPrefix == <<"d", "u", "p", ":">>
Rest(k, prefix) == SubSeq(k, Len(prefix) + 1, Len(k))

\* what the backing store answers for the lookup a cache key stands for
StoreAnswer(k) ==
    IF StartsWith(k, EmailPrefix) THEN Lookup(users, Rest(k, EmailPrefix))
    ELSE IF StartsWith(k, IdPrefix) THEN Lookup(users_by_id, Rest(k, IdPrefix))
    ELSE Bool(Rest(k, DupPrefix) \in DOMAIN users)

Agrees(e) == e.value = StoreAnswer(e.key)

\* C4: between the calls of a sequential client every entry of the cache holds what
\* the backing store answers for its key.
CacheAgreesWithStore == AllIdle => \A n \in 1..Len(cache) : Agrees(cache[n])

\* ------------------------------------------------------------------ C5
Returning(t, op) == pc[t] = "ret" /\ loc[t].op = op

\* C5: when delete_user(email) returns True the store holds no record for the email
\* and none of the record's three keys is in the cache; and a get_user_by_email that
\* starts with its key absent from the cache and the email absent from the store
\* returns None after exactly one miss, no hit and no write to the cache.
DeleteThenMiss ==
    \A t \in Threads :
        /\ (Returning(t, "delete_user") /\ loc[t].result = Bool(TRUE)) =>
              /\ loc[t].user_data # None
              /\ Lookup(users, Lower(loc[t].email)) = None
              /\ ~Has(cache, EmailKey(loc[t].email))
              /\ ~Has(cache, IdKey(loc[t].user_data.user_id))
              /\ ~Has(cache, DupKey(loc[t].email))
        /\ (/\ Returning(t, "get_user_by_email")
            /\ ~Has(loc[t].pre.cache, EmailKey(loc[t].email))
            /\ Lookup(users, Lower(loc[t].email)) = None) =>
              /\ loc[t].result = None
              /\ misses = loc[t].pre.misses + 1
              /\ hits = loc[t].pre.hits
              /\ cache = loc[t].pre.cache

\* delete_user returns True for a record that was cached under its three keys and
\* had been read from the cache
C5Witness ==
    \E t \in Threads :
        /\ Returning(t, "delete_user")
        /\ loc[t].result = Bool(TRUE)
        /\ hits > 0
        /\ Has(loc[t].pre.cache, EmailKey(loc[t].email))
        /\ Has(loc[t].pre.cache, IdKey(loc[t].user_data.user_id))
        /\ Has(loc[t].pre.cache, DupKey(loc[t].email))

\* ------------------------------------------------------------------ C6
HoldsSaved(t) ==
    /\ Has(cache, EmailKey(loc[t].email))
    /\ Entry(cache, EmailKey(loc[t].email)).value = loc[t].data
    /\ Has(cache, IdKey(loc[t].uid))
    /\ Entry(cache, IdKey(loc[t].uid)).value = loc[t].data
    /\ Has(cache, DupKey(loc[t].email))
    /\ Entry(cache, DupKey(loc[t].email)).value = Bool(TRUE)

\* the cache key a lookup call reads
LookupKey(l) ==
    IF l.op = "get_user_by_email" THEN EmailKey(l.email)
    ELSE IF l.op = "get_user_by_id" THEN IdKey(l.uid)
    ELSE DupKey(l.email)

Lookups == {"get_user_by_email", "get_user_by_id", "check_duplicate"}

\* a lookup whose key was in the cache when it started and has not expired when it
\* returns gives the cached value after one hit and no miss
AnsweredFromCache(t) ==
    (/\ pc[t] = "ret"
     /\ loc[t].op \in Lookups
     /\ Has(loc[t].pre.cache, LookupKey(loc[t]))
     /\ ~IsExpired(Entry(loc[t].pre.cache, LookupKey(loc[t])), now)) =>
        /\ loc[t].result = Entry(loc[t].pre.cache, LookupKey(loc[t])).value
        /\ hits = loc[t].pre.hits + 1
        /\ misses = loc[t].pre.misses

\* C6 as stated: whenever save_user returns True the three keys hold the saved data,
\* and a lookup that starts with its key in the cache is a hit.
SaveThenHits ==
    \A t \in Threads :
        /\ (Returning(t, "save_user") /\ loc[t].result = Bool(TRUE)) => HoldsSaved(t)
        /\ (/\ pc[t] = "ret"
            /\ loc[t].op \in Lookups
            /\ Has(loc[t].pre.cache, LookupKey(loc[t]))) =>
              /\ loc[t].result = Entry(loc[t].pre.cache, LookupKey(loc[t])).value
              /\ hits = loc[t].pre.hits + 1
              /\ misses = loc[t].pre.misses

\* C6 amended: on a cache with max_size >= 3, when save_user returns True the three
\* keys hold the saved data; a lookup made before the entry's TTL has elapsed is
\* answered from the cache with one hit and no miss.
SaveThenHitsWithinCapacityAndTtl ==
    \A t \in Threads :
        /\ (Returning(t, "save_user") /\ loc[t].result = Bool(TRUE) /\ max_size >= 3) =>
              HoldsSaved(t)
        /\ AnsweredFromCache(t)

\* save_user returns True after replacing a cached record by a new version
C6Witness ==
    \E t \in Threads :
        /\ Returning(t, "save_user")
        /\ loc[t].result = Bool(TRUE)
        /\ max_size >= 3
        /\ hits > 0
        /\ Has(loc[t].pre.cache, EmailKey(loc[t].email))
        /\ Entry(loc[t].pre.cache, EmailKey(loc[t].email)).value # loc[t].data
        /\ HoldsSaved(t)

\* ------------------------------------------------------------------ C7
\* C7: when the store's save_user returns False or raises, CachedUserStore.save_user
\* hands that to the caller with the map, its order and the counters as they were
\* when the call started.
FailedSaveLeavesCache ==
    \A t \in Threads :
        (Returning(t, "save_user") /\ loc[t].success # Bool(TRUE)) =>
            /\ loc[t].result = loc[t].success
            /\ loc[t].result \in {Bool(FALSE), Raise("KeyError")}
            /\ Shared = loc[t].pre

\* a failed save returns False over a cache that holds entries
C7Witness ==
    \E t \in Threads :
        /\ Returning(t, "save_user")
        /\ loc[t].result = Bool(FALSE)
        /\ Len(cache) = 3
        /\ hits > 0

\* ------------------------------------------------------------------ C8
\* C8: once every call has returned, no cached entry differs from the backing store:
\* no record the store no longer holds is in the cache, and no dup: flag is False for
\* an email the store holds.
StaleOnlyTransient ==
    AllIdle =>
        \A n \in 1..Len(cache) :
            /\ StoreAnswer(cache[n].key) = None => cache[n].value = None
            /\ cache[n].value = Bool(FALSE) => StoreAnswer(cache[n].key) = Bool(FALSE)
            /\ Agrees(cache[n])

\* ----------------------------------------------------------------- C10
\* C10: no thread is about to call the backing store while it holds the cache lock.
NoStoreCallUnderLock == \A t \in Threads : pc[t] \in StoreLabels => lock # t

\* a thread is at a backing-store call while the other thread holds the cache lock
C10Witness ==
    \E t \in Threads, u \in Threads :
        /\ t # u
        /\ pc[t] \in StoreLabels
        /\ lock = u
        /\ pc[u] \in LockedLabels

\* ----------------------------------------------------------------- C11
WorkersDone == \A t \in Threads : pc[t] = "w_done"

KeysSet == UNION {DOMAIN loc[t].wrote : t \in Threads}

Min(a, b) == IF a < b THEN a ELSE b

WorkersFinal ==
    WorkersDone =>
        /\ Len(cache) = Min(max_size, Cardinality(KeysSet))
        /\ Cardinality(KeysOf(cache)) = Len(cache)
        /\ \A n \in 1..Len(cache) :
              \E t \in Threads :
                  /\ cache[n].key \in DOMAIN loc[t].wrote
                  /\ cache[n].value = loc[t].wrote[cache[n].key]

\* C11: threads that interleave set and get on keys of their own, with no entry
\* expiring, all run to completion; then the size is the smaller of max_size and the
\* number of distinct keys set, and each key present holds the value its thread set
\* last.
DisjointWorkers == []WorkersFinal /\ <>WorkersDone

\* both threads are done, keys were evicted and a get hit
C11Witness ==
    /\ WorkersDone
    /\ evictions > 0
    /\ hits > 0
    /\ Cardinality(KeysSet) > max_size
    /\ \E t \in Threads : Cardinality(DOMAIN loc[t].wrote) = 2

\* ----------------------------------------------------------------- C12
\* the keys of c other than k, in their order
OtherKeys(c, k) == SelectSeq(KeyList(c), LAMBDA x : x # k)

\* the step of thread t that carries out the body of get
GetStep(t) == pc[t] = "get_body" /\ pc'[t] # "get_body"

\* the value of a key is the one handed to the set that filed it: the insertion files
\* the value of the call, and no other step changes the value of a key that stays
ValueIsLastSet ==
    /\ \A t \in Threads :
          (pc[t] = "set_insert" /\ pc'[t] # "set_insert") =>
              Entry(cache', call[t].key).value = call[t].value
    /\ \A k \in KeysOf(cache) \cap KeysOf(cache') :
          Entry(cache', k).value # Entry(cache, k).value =>
              \E t \in Threads : pc[t] = "set_insert" /\ call[t].key = k

GetHitStep(t) ==
    LET k == call[t].key IN
    (GetStep(t) /\ Has(cache, k) /\ (Entry(cache, k).expiry = Inf \/ now <= Entry(cache, k).expiry)) =>
        /\ call'[t].ret = Entry(cache, k).value
        /\ hits' = hits + 1
        /\ misses' = misses
        /\ evictions' = evictions
        /\ KeyList(cache') = Append(OtherKeys(cache, k), k)
        /\ \A x \in KeysOf(cache) : Entry(cache', x) = Entry(cache, x)

\* C12: a get of a present, unexpired key returns the value of the most recent set of
\* the key, adds one to hits, moves the key to the most recently used end, and leaves
\* misses, evictions, the entries and the order of the other keys as they were.
GetHit == [][ValueIsLastSet /\ \A t \in Threads : GetHitStep(t)]_vars

\* third call: a get hit on a map of two; the other key was set at the last clock
\* value, after the key got, and the key got is now the most recently used
C12Witness ==
    \E t \in Threads :
        /\ pc[t] = "lru_ret"
        /\ call[t].op = "get"
        /\ call[t].ret = UserData(<<"a">>, <<"1">>, "v1")
        /\ calls = MaxCallsOne - 3
        /\ hits = 1
        /\ misses = 0
        /\ Len(cache) = 2
        /\ cache[2].key = call[t].key
        /\ cache[1].expiry = MaxClock + default_ttl
        /\ cache[2].expiry > 0
        /\ cache[2].expiry < cache[1].expiry

\* ----------------------------------------------------------------- C13
GetMissStep(t) ==
    LET k == call[t].key IN
    (GetStep(t) /\ (~Has(cache, k) \/ (Entry(cache, k).expiry # Inf /\ now > Entry(cache, k).expiry))) =>
        /\ call'[t].ret = None
        /\ misses' = misses + 1
        /\ hits' = hits
        /\ evictions' = evictions
        /\ ~Has(cache', k)
        /\ KeyList(cache') = OtherKeys(cache, k)
        /\ \A x \in KeysOf(cache') : Entry(cache', x) = Entry(cache, x)

EffectiveTtl(f) == IF f.ttl = None THEN default_ttl ELSE f.ttl.ttl

\* the step of thread t that ends a set; snap is the map when the set took the lock
SetDone(t) == pc[t] = "set_evict" /\ pc'[t] # "set_evict"

SetOverwriteStep(t) ==
    LET k == call[t].key IN
    (SetDone(t) /\ Has(snap.cache, k)) =>
        /\ Has(cache', k)
        /\ Entry(cache', k).value = call[t].value
        /\ Entry(cache', k).expiry =
              (IF EffectiveTtl(call[t]) > 0 THEN call[t].at + EffectiveTtl(call[t]) ELSE Inf)
        /\ KeyList(cache') = Append(OtherKeys(snap.cache, k), k)
        /\ \A x \in KeysOf(snap.cache) \ {k} : Entry(cache', x) = Entry(snap.cache, x)
        /\ Len(cache') = Len(snap.cache)
        /\ evictions' = snap.evictions

GetReturnsEntry(t) ==
    (GetStep(t) /\ call'[t].ret # None) => call'[t].ret = Entry(cache, call[t].key).value

\* C14: a set of a key already in the map replaces value and deadline (from the ttl
\* argument, or default_ttl when omitted), puts the key at the most recently used end,
\* keeps the size and evicts nothing, also on a full map; a get that then finds the
\* key returns the entry's value.
SetOverwrite == [][\A t \in Threads : SetOverwriteStep(t) /\ GetReturnsEntry(t)]_vars

\* a set is replacing, on a full map, an entry that held another value and deadline
C14Witness ==
    \E t \in Threads :
        /\ pc[t] = "set_evict"
        /\ Len(snap.cache) = max_size
        /\ max_size = 2
        /\ snap.cache[1].key = call[t].key
        /\ snap.cache[1].value # call[t].value
        /\ snap.cache[1].expiry # cache[2].expiry
        /\ cache[2].key = call[t].key
        /\ cache[2].value = call[t].value
        /\ Len(cache) = max_size

\* ----------------------------------------------------------------- C15
\* the labels at which a step may take a key out of the map or replace its entry
\* other than by expiry: delete, clear, the insertion and the eviction of set,
\* _invalidate_user_cache and invalidate_pattern
RemovalLabels == {"delete_body", "clear_body", "set_insert", "set_evict", "inv_pop", "pat_del"}

NeverExpiresStep ==
    /\ \A t \in Threads :
          (pc[t] = "set_insert" /\ pc'[t] # "set_insert" /\ EffectiveTtl(call[t]) <= 0) =>
              Entry(cache', call[t].key).expiry = Inf
    /\ \A t \in Threads :
          (GetStep(t) /\ Has(cache, call[t].key) /\ Entry(cache, call[t].key).expiry = Inf) =>
              /\ call'[t].ret = Entry(cache, call[t].key).value
              /\ Has(cache', call[t].key)
    /\ \A k \in KeysOf(cache) :
          (Entry(cache, k).expiry = Inf /\ (~Has(cache', k) \/ Entry(cache', k) # Entry(cache, k))) =>
              \E t \in Threads :
                  /\ pc[t] \in RemovalLabels
                  /\ pc[t] \in {"delete_body", "set_insert"} => call[t].key = k

DeleteStep(t) ==
    LET k == call[t].key IN
    (pc[t] = "delete_body" /\ pc'[t] # "delete_body") =>
        /\ call'[t].ret = Bool(Has(cache, k))
        /\ ~Has(cache', k)
        /\ KeyList(cache') = OtherKeys(cache, k)
        /\ \A x \in KeysOf(cache') : Entry(cache', x) = Entry(cache, x)
        /\ hits' = hits
        /\ misses' = misses
        /\ evictions' = evictions

\* C16: delete returns True exactly when the key was in the map, leaves the key
\* absent (so a second delete returns False), and leaves the counters and the other
\* entries with their order as they were.
DeleteEffect == [][\A t \in Threads : DeleteStep(t)]_vars

\* third call: after two sets a delete returned True and one entry is left
C16Witness ==
    \E t \in Threads :
        /\ pc[t] = "lru_ret"
        /\ call[t].op = "delete"
        /\ call[t].ret = Bool(TRUE)
        /\ calls = MaxCallsOne - 3
        /\ Len(cache) = 1
        /\ hits = 0
        /\ misses = 0
        /\ evictions = 0

\* ----------------------------------------------------------------- C17
ClearStep(t) ==
    (pc[t] = "clear_body" /\ pc'[t] # "clear_body") =>
        /\ cache' = <<>>
        /\ hits' = 0
        /\ misses' = 0
        /\ evictions' = 0
        /\ max_size' = max_size
        /\ default_ttl' = default_ttl

\* C17: when clear returns the map is empty and hits, misses and evictions are zero,
\* whatever they were; max_size and default_ttl are unchanged.
ClearResets == [][\A t \in Threads : ClearStep(t)]_vars

\* clear_all has returned from its cache.clear(): entries and misses that were there
\* when it started are gone
C17Witness ==
    \E t \in Threads :
        /\ Returning(t, "clear_all")
        /\ Len(loc[t].pre.cache) > 0
        /\ loc[t].pre.misses > 0
        /\ cache = <<>>
        /\ hits = 0
        /\ misses = 0
        /\ evictions = 0

\* ----------------------------------------------------------------- C18
\* entry e has a deadline that the clock value t has passed
PastDeadline(e, t) == e.expiry # Inf /\ e.expiry < t

\* the step of thread t that ends a cleanup_expired; snap is the map when it took the
\* lock and call[t].at the clock value of its scan
CleanupDone(t) == pc[t] = "cleanup_del" /\ pc'[t] # "cleanup_del" /\ lock' = NoThread

CleanupStep(t) ==
    CleanupDone(t) =>
        /\ cache' = SelectSeq(snap.cache, LAMBDA e : ~PastDeadline(e, call[t].at))
        /\ call'[t].ret = [n |-> Len(snap.cache) - Len(cache')]
        /\ hits' = snap.hits
        /\ misses' = snap.misses
        /\ evictions' = snap.evictions
        /\ (\A n \in 1..Len(snap.cache) : ~PastDeadline(snap.cache[n], call[t].at)) =>
              /\ call'[t].ret = [n |-> 0]
              /\ cache' = snap.cache

GetsCounted ==
    \A t \in Threads :
        /\ GetStep(t) => hits' + misses' = hits + misses + 1
        /\ (pc[t] = "clear_body" /\ pc'[t] # "clear_body") => hits' = 0 /\ misses' = 0
        /\ (\A u \in Threads : pc[u] \notin {"get_body", "clear_body"}) =>
              hits' = hits /\ misses' = misses

\* what get_stats returns, bar the rate, and that it changes nothing
StatsSnapshot(t) ==
    /\ call'[t].ret.size = Len(cache)
    /\ call'[t].ret.max_size = max_size
    /\ call'[t].ret.hits = hits
    /\ call'[t].ret.misses = misses
    /\ call'[t].ret.evictions = evictions
    /\ Shared' = Shared
    /\ (hits + misses = 0) => call'[t].ret.hit_rate = 0
    /\ (hits = 1 /\ misses = 1) => call'[t].ret.hit_rate = 5000

StatsStep(t) == pc[t] = "stats_body" /\ pc'[t] # "stats_body"

\* rates are in hundredths of a percent: r is exactly 100 * h / (h + m)
ExactRate(r, h, m) == r * (h + m) = 10000 * h

\* r is 100 * h / (h + m) to the nearest hundredth
RoundedRate(r, h, m) ==
    LET d == r * (h + m) - 10000 * h
    IN 2 * (IF d < 0 THEN -d ELSE d) <= h + m

\* C19 as stated: the rate returned is exactly 100 * hits / (hits + misses).
StatsExact ==
    [][GetsCounted /\ \A t \in Threads :
          StatsStep(t) =>
              /\ StatsSnapshot(t)
              /\ (hits + misses > 0) => ExactRate(call'[t].ret.hit_rate, hits, misses)]_vars

\* C19 amended: get_stats returns size, max_size and the counters as they are under
\* the lock, hits + misses being the number of gets since construction or the last
\* clear, and hit_rate 0 when hits + misses = 0 and otherwise 100 * hits / (hits +
\* misses) rounded to two decimals; it changes neither the map nor a counter.
StatsRounded ==
    [][GetsCounted /\ \A t \in Threads :
          StatsStep(t) =>
              /\ StatsSnapshot(t)
              /\ (hits + misses > 0) => RoundedRate(call'[t].ret.hit_rate, hits, misses)]_vars

\* get_stats has returned 33.33 after one hit and two misses
C19Witness ==
    \E t \in Threads :
        /\ pc[t] = "lru_ret"
        /\ call[t].op = "get_stats"
        /\ hits = 1
        /\ misses = 2
        /\ call[t].ret.hits = 1
        /\ call[t].ret.misses = 2
        /\ call[t].ret.hit_rate = 3333
        /\ call[t].ret.size = Len(cache)

\* ----------------------------------------------------------------- C20
\* C20: a cache with max_size <= 0 is rejected at construction, so no set call is
\* ever accepted, let alone completed, by a cache whose max_size is not positive.
ConstructionRejectsNonPositive ==
    \A t \in Threads :
        (call[t].op = "set" /\ pc[t] \in {"set_insert", "set_evict", "lru_ret"}) =>
            max_size >= 1

\* ----------------------------------------------------------------- C21
\* the steps of check_duplicate after its get: a value from the cache goes straight
\* to the caller; on None the store is asked (the call's only step at a store label)
\* and its answer goes into a set of dup:{email} with no ttl argument, then to the caller
CheckDuplicatePath(t) ==
    /\ (pc[t] = "cd_got" /\ pc'[t] # "cd_got") =>
          IF call[t].ret # None
          THEN pc'[t] = "ret" /\ loc'[t].result = call[t].ret
          ELSE pc'[t] = "cd_store"
    /\ (pc'[t] = "cd_store" /\ pc[t] # "cd_store") => pc[t] = "cd_got" /\ call[t].ret = None
    /\ (pc[t] = "cd_store" /\ pc'[t] # "cd_store") =>
          /\ loc'[t].result = StoreCheckDuplicate(loc[t].email)
          /\ pc'[t] = "set"
          /\ call'[t] = SetFrame(DupKey(loc[t].email), loc'[t].result, None, "ret")
          /\ storeVars' = storeVars
    /\ (loc[t].op = "check_duplicate" /\ pc[t] \in StoreLabels) => pc[t] = "cd_store"

CheckDuplicateSteps == [][\A t \in Threads : CheckDuplicatePath(t)]_vars

\* what a check_duplicate of a sequential client has done when it returns
CheckDuplicateDone(t) ==
    Returning(t, "check_duplicate") =>
        LET k == DupKey(loc[t].email)
            old == loc[t].pre.cache
        IN IF Has(old, k) /\ ~IsExpired(Entry(old, k), loc[t].t0)
           THEN /\ loc[t].result = Entry(old, k).value
                /\ loc[t].result \in {Bool(TRUE), Bool(FALSE)}
                /\ loc[t].cached = loc[t].result
                /\ cache = MoveToEnd(old, k)
           ELSE /\ loc[t].cached = None
                /\ loc[t].result = StoreCheckDuplicate(loc[t].email)
                /\ Has(cache, k)
                /\ Entry(cache, k).value = loc[t].result
                /\ Entry(cache, k).expiry = loc[t].t0 + default_ttl

\* C21: check_duplicate returns the cached boolean, True or False, without a store
\* call when dup:{lowercased email} is present and not expired; otherwise it calls the
\* store's check_duplicate once, files the answer under dup:{lowercased email} with
\* the default ttl and returns it.
CheckDuplicateCached == [](\A t \in Threads : CheckDuplicateDone(t)) /\ CheckDuplicateSteps

\* a cached False is returned from the cache
C21Witness ==
    \E t \in Threads :
        /\ Returning(t, "check_duplicate")
        /\ loc[t].cached = Bool(FALSE)
        /\ loc[t].result = Bool(FALSE)
        /\ Has(loc[t].pre.cache, DupKey(loc[t].email))
        /\ hits = loc[t].pre.hits + 1

\* ----------------------------------------------------------------- C22
\* the key a lookup reads and the other key its record is filed under
OtherKey(l, r) == IF l.op = "get_user_by_email" THEN IdKey(r.user_id) ELSE EmailKey(r.email)

\* the store's answer to the lookup
StoreLookup(l) ==
    IF l.op = "get_user_by_email" THEN StoreGetByEmail(l.email) ELSE StoreGetById(l.uid)

UserLookups == {"get_user_by_email", "get_user_by_id"}

\* the steps of a lookup after its get: a cached record goes straight to the caller; on
\* None the store is asked, at the call's only store label, and a record it returns is
\* handed to two sets, first under the key looked up, then under the record's other key
ReadThroughPath(t) ==
    /\ (pc[t] \in {"ge_got", "gi_got"} /\ pc'[t] # pc[t]) =>
          IF call[t].ret # None
          THEN pc'[t] = "ret" /\ loc'[t].result = call[t].ret
          ELSE pc'[t] = (IF pc[t] = "ge_got" THEN "ge_store" ELSE "gi_store")
    /\ (pc'[t] = "ge_store" /\ pc[t] # "ge_store") => pc[t] = "ge_got" /\ call[t].ret = None
    /\ (pc'[t] = "gi_store" /\ pc[t] # "gi_store") => pc[t] = "gi_got" /\ call[t].ret = None
    /\ (pc[t] \in {"ge_store", "gi_store"} /\ pc'[t] # pc[t]) =>
          LET r == StoreLookup(loc[t]) IN
          /\ loc'[t].result = r
          /\ storeVars' = storeVars
          /\ IF r = None
             THEN pc'[t] = "ret"
             ELSE /\ pc'[t] = "set"
                  /\ call'[t] = SetFrame(LookupKey(loc[t]), r, None,
                                         IF pc[t] = "ge_store" THEN "ge_id" ELSE "gi_email")
    /\ (pc[t] \in {"ge_id", "gi_email"} /\ pc'[t] # pc[t]) =>
          /\ pc'[t] = "set"
          /\ call'[t] = SetFrame(OtherKey(loc[t], loc[t].result), loc[t].result, None, "ret")
          /\ loc'[t] = loc[t]
    /\ (loc[t].op \in UserLookups /\ pc[t] \in StoreLabels) =>
          pc[t] = (IF loc[t].op = "get_user_by_email" THEN "ge_store" ELSE "gi_store")

\* what a lookup of a sequential client has done when it returns
ReadThroughDone(t) ==
    (pc[t] = "ret" /\ loc[t].op \in UserLookups) =>
        LET k == LookupKey(loc[t])
            old == loc[t].pre.cache
            r == loc[t].result
        IN IF Has(old, k) /\ ~IsExpired(Entry(old, k), loc[t].t0)
           THEN /\ r = Entry(old, k).value
                /\ loc[t].cached = r
                /\ cache = MoveToEnd(old, k)
           ELSE /\ loc[t].cached = None
                /\ r = StoreLookup(loc[t])
                /\ IF r = None
                   THEN cache = Remove(old, k)
                   ELSE /\ Has(cache, EmailKey(r.email))
                        /\ Entry(cache, EmailKey(r.email)).value = r
                        /\ Has(cache, IdKey(r.user_id))
                        /\ Entry(cache, IdKey(r.user_id)).value = r
                        /\ k \in {EmailKey(r.email), IdKey(r.user_id)}

\* C22: get_user_by_email and get_user_by_id return a cached record without a store
\* call; on a miss they ask the store once and, if it has a record, file it under both
\* email:{lowercased record email} and id:{record id} before returning it.
ReadThrough ==
    [](\A t \in Threads : ReadThroughDone(t)) /\ [][\A t \in Threads : ReadThroughPath(t)]_vars

\* get_user_by_id missed, got a record saved as "A" from the store and filed it
\* under email:a
C22Witness ==
    \E t \in Threads :
        /\ Returning(t, "get_user_by_id")
        /\ loc[t].cached = None
        /\ loc[t].result # None
        /\ loc[t].result.email = <<"A">>
        /\ misses = loc[t].pre.misses + 1
        /\ Has(cache, EmailKey(<<"a">>))
        /\ Entry(cache, EmailKey(<<"a">>)).value = loc[t].result
        /\ Entry(cache, EmailKey(<<"a">>)).expiry = now + default_ttl

\* ----------------------------------------------------------------- C23
IsRecord(v) == "user_id" \in DOMAIN v

\* r is an earlier state of the record the call saves: the same id under another
\* email, or the same email under another id
PreviousState(l, r) ==
    /\ IsRecord(r)
    /\ \/ r.user_id = l.uid /\ Lower(r.email) # l.email
       \/ Lower(r.email) = l.email /\ r.user_id # l.uid

\* C23: when save_user returns True, no cache entry holds an earlier state of the
\* saved record, and no dup: flag is left for an email the record has moved away from.
PreviousStateInvalidated ==
    \A t \in Threads :
        (Returning(t, "save_user") /\ loc[t].result = Bool(TRUE)) =>
            /\ \A n \in 1..Len(cache) : ~PreviousState(loc[t], cache[n].value)
            /\ \A n \in 1..Len(loc[t].pre.cache) :
                  LET r == loc[t].pre.cache[n].value IN
                  (PreviousState(loc[t], r) /\ r.user_id = loc[t].uid) =>
                      ~Has(cache, DupKey(r.email))

\* ----------------------------------------------------------------- C24
\* the steps of delete_user: the read of the record comes first and changes nothing;
\* the store's delete follows, and only a True from it for a record that was read
\* leads on to the invalidation
DeleteUserPath(t) ==
    /\ (pc[t] = "du_read" /\ pc'[t] # "du_read") =>
          /\ pc'[t] = "du_store"
          /\ loc'[t].user_data = StoreGetByEmail(loc[t].email)
          /\ storeVars' = storeVars
          /\ Shared' = Shared
    /\ (pc'[t] = "du_store" /\ pc[t] # "du_store") => pc[t] = "du_read"
    /\ (pc[t] = "du_store" /\ pc'[t] # "du_store") =>
          /\ Shared' = Shared
          /\ loc'[t].result = loc'[t].success
          /\ IF loc'[t].success = Bool(TRUE) /\ loc[t].user_data # None
             THEN pc'[t] = "inv"
             ELSE pc'[t] = "ret"

\* a delete_user of a sequential client that read no record, or whose store delete
\* did not succeed, returns the store's result over an untouched cache
DeleteUserFrame(t) ==
    (Returning(t, "delete_user") /\ (loc[t].user_data = None \/ loc[t].success # Bool(TRUE))) =>
        /\ Shared = loc[t].pre
        /\ loc[t].result = loc[t].success

\* C24: delete_user reads the record from the store before it deletes; when the read
\* finds nothing or the store's delete does not succeed, the map, its order and the
\* counters are as they were and the store's delete result is what is returned.
DeleteWithoutInvalidation ==
    [](\A t \in Threads : DeleteUserFrame(t)) /\ [][\A t \in Threads : DeleteUserPath(t)]_vars

\* the store held the record and had it cached, and its delete returned False
C24Witness ==
    \E t \in Threads :
        /\ Returning(t, "delete_user")
        /\ loc[t].user_data # None
        /\ loc[t].result = Bool(FALSE)
        /\ Has(cache, EmailKey(loc[t].email))
        /\ Has(cache, DupKey(loc[t].email))
        /\ Lookup(users, Lower(loc[t].email)) = loc[t].user_data

\* ----------------------------------------------------------------- C25
\* the derived keys of the record thread t saves that hold what save_user files
RefreshedKeys(t) ==
    {k \in {EmailKey(loc[t].email), IdKey(loc[t].uid)} :
        Has(cache, k) /\ Entry(cache, k).value = loc[t].data}
    \cup {k \in {DupKey(loc[t].email)} : Has(cache, k) /\ Entry(cache, k).value = Bool(TRUE)}

\* thread t has written the store and invalidated, and has not yet returned
Refreshing(t) ==
    /\ loc[t].op = "save_user"
    /\ loc[t].success = Bool(TRUE)
    /\ pc[t] \in {"su_email", "su_id", "su_dup", "set"}

\* C25: while a save_user is between its store write and its return, a get of another
\* thread that reads one of the record's three keys finds them all refreshed or none.
AtomicCacheUpdate ==
    \A t \in Threads, u \in Threads :
        (/\ t # u
         /\ Refreshing(t)
         /\ pc[u] = "get_body"
         /\ call[u].key \in {EmailKey(loc[t].email), IdKey(loc[t].uid), DupKey(loc[t].email)}) =>
            Cardinality(RefreshedKeys(t)) \in {0, 3}

\* ----------------------------------------------------------------- C26
\* the labels at which a thread is about to take the lock
AcquireLabels == {"get", "set", "delete", "clear", "stats", "cleanup", "inv", "pat"}

\* the lock is held exactly inside the `with` blocks: not by a thread that has
\* returned or is about to acquire it
LockDiscipline ==
    \A t \in Threads :
        /\ pc[t] \in LockedLabels <=> lock = t
        /\ pc[t] \in AcquireLabels \cup {"idle", "lru_ret"} => lock # t

\* a thread inside a call can take a step, or waits for a lock whose holder can
NoDeadlock == (\E t \in Threads : pc[t] # "idle") => ENABLED (\E t \in Threads : LRUStep(t))

\* the loops of cleanup_expired, invalidate_pattern and _invalidate_user_cache run over
\* a list taken once under the lock, no longer than the map (three keys for
\* _invalidate_user_cache), and each iteration shortens it by one
OnePass(t) ==
    /\ (pc[t] \in {"cleanup_scan", "pat_scan"} /\ pc'[t] # pc[t]) =>
          Len(call'[t].todo) <= Len(cache)
    /\ (pc[t] \in {"cleanup_del", "pat_del", "inv_pop"} /\ call[t].todo # <<>>) =>
          ((call'[t] # call[t] \/ cache' # cache) =>
              /\ Len(call'[t].todo) = Len(call[t].todo) - 1
              /\ pc'[t] = pc[t])
    /\ (pc[t] \in {"cleanup_del", "pat_del", "inv_pop"} /\ call[t].todo = <<>>) =>
          pc'[t] \in {pc[t], call[t].cont}

\* C26: under fair scheduling every cache operation that was invoked returns; the
\* lock is free after every return and is never requested by its holder; the loops of
\* cleanup_expired and invalidate_pattern make one pass; no state is a deadlock.
EveryCallReturns ==
    /\ [](LockDiscipline /\ NoDeadlock)
    /\ [][\A t \in Threads : OnePass(t)]_vars
    /\ \A t \in Threads : (pc[t] # "idle") ~> (pc[t] = "idle")

\* a thread waits for the lock while the other is inside the loop of cleanup_expired
\* or invalidate_pattern with a key still to delete
C26Witness ==
    \E t \in Threads, u \in Threads :
        /\ t # u
        /\ pc[t] \in AcquireLabels
        /\ lock = u
        /\ pc[u] \in {"cleanup_del", "pat_del"}
        /\ call[u].todo # <<>>

\* ----------------------------------------------------------------- C27
StarCount(p) == Cardinality({n \in 1..Len(p) : p[n] = "*"})

\* the reference semantics of a pattern with at most one '*': equality without a '*';
\* otherwise the pattern is x*y and the key is x, then any string, then y
RefMatch(key, p) ==
    IF StarCount(p) = 0 THEN key = p
    ELSE LET i == CHOOSE n \in 1..Len(p) : p[n] = "*"
             x == SubSeq(p, 1, i - 1)
             y == SubSeq(p, i + 1, Len(p))
         IN \E m \in 0..Len(key) :
               /\ Len(key) = Len(x) + m + Len(y)
               /\ SubSeq(key, 1, Len(x)) = x
               /\ SubSeq(key, Len(x) + m + 1, Len(key)) = y

\* the step that ends invalidate_pattern
PatternDone(t) == pc[t] = "pat_del" /\ pc'[t] # "pat_del"

\* C27: invalidate_pattern(p), p with at most one '*', leaves exactly the entries whose
\* keys do not match p under the reference semantics, in their order.
PatternRemovesMatches ==
    [][\A t \in Threads :
          (PatternDone(t) /\ StarCount(call[t].pattern) <= 1) =>
              cache' = SelectSeq(snap.cache, LAMBDA e : ~RefMatch(e.key, call[t].pattern))]_vars

\* ----------------------------------------------------------------- C28
\* C28: invalidate_pattern with a pattern of more than one '*' removes at most the key
\* that equals the pattern character for character, and nothing else.
MultiStarIsLiteral ==
    [][\A t \in Threads :
          (PatternDone(t) /\ StarCount(call[t].pattern) > 1) =>
              cache' = SelectSeq(snap.cache, LAMBDA e : e.key # call[t].pattern)]_vars

\* ----------------------------------------------------------------- C29
RECURSIVE EmailWrites(_)
\* the sets warm_cache makes for a list of emails, in order
EmailWrites(emails) ==
    IF emails = <<>> THEN <<>>
    ELSE LET r == StoreGetByEmail(Head(emails))
         IN (IF r = None THEN <<>>
             ELSE <<[key |-> EmailKey(Head(emails)), value |-> r],
                    [key |-> IdKey(r.user_id), value |-> r]>>)
            \o EmailWrites(Tail(emails))

RECURSIVE IdWrites(_)
\* the sets warm_cache makes for a list of ids, in order
IdWrites(ids) ==
    IF ids = <<>> THEN <<>>
    ELSE LET r == StoreGetById(Head(ids))
         IN (IF r = None THEN <<>>
             ELSE <<[key |-> IdKey(Head(ids)), value |-> r],
                    [key |-> EmailKey(r.email), value |-> r]>>)
            \o IdWrites(Tail(ids))

WarmWrites(l) == EmailWrites(l.args.emails) \o IdWrites(l.args.user_ids)

\* the value of the last write to the key of the n-th write
LastWritten(w, n) ==
    w[CHOOSE m \in 1..Len(w) :
          w[m].key = w[n].key /\ \A j \in (m + 1)..Len(w) : w[j].key # w[n].key].value

\* warm_cache raises nothing, leaves hits and misses alone, and writes no key other
\* than the two keys of each listed email or id that the store knows
WarmFrame(t) ==
    LET w == WarmWrites(loc[t])
        written == {w[n].key : n \in 1..Len(w)}
    IN /\ loc[t].result = None
       /\ hits = loc[t].pre.hits
       /\ misses = loc[t].pre.misses
       /\ KeysOf(cache) \subseteq KeysOf(loc[t].pre.cache) \cup written
       /\ \A k \in KeysOf(cache) \ written : Entry(cache, k) = Entry(loc[t].pre.cache, k)

\* the n-th write of the call is in the cache
Warmed(t, w, n) ==
    /\ Has(cache, w[n].key)
    /\ Entry(cache, w[n].key).value = LastWritten(w, n)
    /\ Entry(cache, w[n].key).expiry = loc[t].t0 + default_ttl

\* C29 as stated: when warm_cache returns, both keys of every listed email or id that
\* the store knows hold the store's record, so that the next lookup is a hit.
WarmThenHit ==
    \A t \in Threads :
        Returning(t, "warm_cache") =>
            /\ WarmFrame(t)
            /\ \A n \in 1..Len(WarmWrites(loc[t])) : Warmed(t, WarmWrites(loc[t]), n)

\* C29 amended: warm_cache sets both keys of every listed email or id that the store
\* knows to the store's record with the default ttl; when the call has evicted
\* nothing, each of these keys holds the record on return, and a lookup of a key
\* that is in the cache and has not expired is a hit; unknown emails and ids write
\* nothing and raise nothing; hits and misses are never changed.
WarmThenHitWithinCapacityAndTtl ==
    \A t \in Threads :
        /\ Returning(t, "warm_cache") =>
              /\ WarmFrame(t)
              /\ evictions = loc[t].pre.evictions =>
                    \A n \in 1..Len(WarmWrites(loc[t])) : Warmed(t, WarmWrites(loc[t]), n)
        /\ AnsweredFromCache(t)

\* warm_cache returns having skipped an unknown email and an unknown id and filed
\* two users under four keys
C29Witness ==
    \E t \in Threads :
        /\ Returning(t, "warm_cache")
        /\ Len(loc[t].args.emails) = 2
        /\ Len(loc[t].args.user_ids) = 3
        /\ Len(WarmWrites(loc[t])) = 6
        /\ Len(cache) = 4
        /\ evictions = 0
        /\ \A n \in 1..6 : Warmed(t, WarmWrites(loc[t]), n)

\* ----------------------------------------------------------------- C30
\* an email: or dup: key carries a lower-cased email
FoldedKey(k) ==
    /\ StartsWith(k, EmailPrefix) => Rest(k, EmailPrefix) = Lower(Rest(k, EmailPrefix))
    /\ StartsWith(k, DupPrefix) => Rest(k, DupPrefix) = Lower(Rest(k, DupPrefix))

\* the email in an email: or dup: key
KeyEmail(k) == IF StartsWith(k, EmailPrefix) THEN Rest(k, EmailPrefix) ELSE Rest(k, DupPrefix)

IsEmailKey(k) == StartsWith(k, EmailPrefix) \/ StartsWith(k, DupPrefix)

\* the email the call of thread t was given, in the casing it was given
GivenEmail(t) == IF loc[t].op = "save_user" THEN loc[t].data.email ELSE loc[t].email

\* every email: or dup: key that a call reads, writes or invalidates is the key of the
\* lower-cased email: of the argument for the calls that take an email, of the record
\* for get_user_by_id and for warm_cache by id
SameEntries(t) ==
    LET f == call[t] IN
    /\ (f.op \in {"get", "set"} /\ IsEmailKey(f.key)) =>
          IF loc[t].op \in {"check_duplicate", "save_user", "get_user_by_email"}
          THEN KeyEmail(f.key) = Lower(GivenEmail(t))
          ELSE KeyEmail(f.key) = Lower(f.value.email)
    /\ f.op = "_invalidate_user_cache" =>
          /\ f.keys[1] = EmailKey(Lower(GivenEmail(t)))
          /\ f.keys[3] = DupKey(Lower(GivenEmail(t)))
          /\ ~IsEmailKey(f.keys[2])

KeysFolded ==
    /\ \A k \in KeysOf(cache) : FoldedKey(k)
    /\ \A t \in Threads :
          /\ FoldedKey(call[t].key)
          /\ \A n \in 1..Len(call[t].keys) : FoldedKey(call[t].keys[n])
          /\ SameEntries(t)

\* a get_user_by_email under any casing of an email whose lower-cased key is in the
\* cache and has not expired returns the cached record
OtherCasingHits ==
    \A t \in Threads :
        Returning(t, "get_user_by_email") =>
            LET k == <<"e", "m", "a", "i", "l", ":">> \o Lower(loc[t].email)
                old == loc[t].pre.cache
            IN (Has(old, k) /\ ~IsExpired(Entry(old, k), loc[t].t0)) =>
                  /\ loc[t].result = Entry(old, k).value
                  /\ hits = loc[t].pre.hits + 1

\* C30: every email: and dup: key is built from the lower-cased email, so calls given
\* emails that differ only in case use the same entries, and get_user_by_email under
\* one casing returns the record cached under the other.
CaseInsensitiveKeys == KeysFolded /\ OtherCasingHits

\* get_user_by_email("A") is answered from the cache with the record saved as "a"
C30Witness ==
    \E t \in Threads :
        /\ Returning(t, "get_user_by_email")
        /\ loc[t].email = <<"A">>
        /\ loc[t].result # None
        /\ loc[t].result.email = <<"a">>
        /\ loc[t].cached = loc[t].result
        /\ hits = loc[t].pre.hits + 1

\* ----------------------------------------------------------------- C31
\* the entries of c that were not in the map `before`
NewEntries(c, before) ==
    {c[n] : n \in {m \in 1..Len(c) : \A j \in 1..Len(before) : before[j] # c[m]}}

\* the records the store holds in either index
StoredRecords == {users[k] : k \in DOMAIN users} \cup {users_by_id[k] : k \in DOMAIN users_by_id}

\* C31: "record not found" is never cached. No entry holds None; a get_user_by_email or
\* get_user_by_id that returns None has asked the store, which has no record for the
\* key, and has written no entry, so a lookup made once the store has the record does
\* not return None; every entry warm_cache writes holds a record of the store.
NotFoundNotCached ==
    /\ \A n \in 1..Len(cache) : cache[n].value # None
    /\ \A t \in Threads :
        /\ (pc[t] = "ret" /\ loc[t].op \in UserLookups /\ loc[t].result = None) =>
               /\ StoreLookup(loc[t]) = None
               /\ NewEntries(cache, loc[t].pre.cache) = {}
               /\ misses = loc[t].pre.misses + 1
        /\ (pc[t] = "ret" /\ loc[t].op \in UserLookups /\ StoreLookup(loc[t]) # None) =>
               IsRecord(loc[t].result)
        /\ (pc[t] = "ret" /\ loc[t].op = "warm_cache") =>
               \A e \in NewEntries(cache, loc[t].pre.cache) : e.value \in StoredRecords

\* a lookup missed while the store was empty and left the cache empty; the user was
\* then saved on the store itself, and this lookup returns the record from the store
C31Witness ==
    \E t \in Threads :
        /\ pc[t] = "ret"
        /\ loc[t].op \in UserLookups
        /\ now = 0
        /\ loc[t].pre.cache = <<>>
        /\ loc[t].pre.misses >= 1
        /\ loc[t].cached = None
        /\ IsRecord(loc[t].result)
        /\ loc[t].result = StoreLookup(loc[t])

\* ----------------------------------------------------------------- C32
\* what a get of each cached key would hand out
CachedContents == [n \in 1..Len(cache) |-> [key |-> cache[n].key,
                                            value |-> Contents(cache[n].value)]]

\* C32: the cache holds and hands out copies: a step that is no operation on the cache
\* (the client changing a dict that get returned, or one it passed to set) leaves what
\* a later get of every key returns unchanged.
GetReturnsCopy ==
    [][cache' = cache => CachedContents' = CachedContents]_vars

\* ----------------------------------------------------------------- C33
\* C33: a CacheEntry created with ttl = 0 (here by set, which has just filed it) reports
\* is_expired() at every clock value after its creation instant.
ZeroTtlEntryExpires ==
    \A t \in Threads :
        (pc[t] = "set_evict" /\ EffectiveTtl(call[t]) = 0) =>
            \A c \in (call[t].at + 1)..(MaxClock + 1) :
                IsExpired(Entry(cache, call[t].key), c)

\* ----------------------------------------------------------------- C34
\* C34: once the save_user calls of both clients have returned, the records cached
\* under email:{email} and id:{id} are the records the backing store holds for them.
ConcurrentSavesConverge ==
    (AllIdle /\ calls = 0) =>
        \A n \in 1..Len(cache) :
            IsRecord(cache[n].value) => cache[n].value = StoreAnswer(cache[n].key)

\* ----------------------------------------------------------------- C35
\* C35: every entry is filed under a key derived from its own value: a record under
\* email:{k} has lower-cased email k, a record under id:{k} has user_id k, and the
\* value under a dup: key is a boolean.
KeysDerivedFromValues ==
    \A n \in 1..Len(cache) :
        LET k == cache[n].key
            v == Contents(cache[n].value)
        IN /\ StartsWith(k, EmailPrefix) =>
                  IsRecord(v) /\ Lower(v.email) = Rest(k, EmailPrefix)
           /\ StartsWith(k, IdPrefix) => IsRecord(v) /\ v.user_id = Rest(k, IdPrefix)
           /\ StartsWith(k, DupPrefix) => "bool" \in DOMAIN v

\* ----------------------------------------------------------------- C36
\* the deadline of a key that stays in the map changes only in a set of that key
DeadlineKept ==
    \A k \in KeysOf(cache) \cap KeysOf(cache') :
        Entry(cache', k).expiry # Entry(cache, k).expiry =>
            \E t \in Threads : pc[t] = "set_insert" /\ call[t].key = k

\* a get of a present key: a hit puts the key last with the deadline it had; once the
\* clock has passed the deadline the get returns None and the key is gone, however
\* many hits the key has had
GetKeepsDeadline(t) ==
    LET k == call[t].key IN
    (GetStep(t) /\ Has(cache, k)) =>
        IF Entry(cache, k).expiry # Inf /\ now > Entry(cache, k).expiry
        THEN call'[t].ret = None /\ ~Has(cache', k)
        ELSE /\ cache'[Len(cache')].key = k
             /\ Entry(cache', k).expiry = Entry(cache, k).expiry
             /\ hits' = hits + 1

\* C36: the expiry instant of an entry is fixed when set creates it; no other
\* operation changes it, a get hit refreshes the recency of the key but not its
\* lifetime, and an entry that is read again and again is still absent at the first get
\* after its deadline.
ExpiryFixedAtSet == [][DeadlineKept /\ \A t \in Threads : GetKeepsDeadline(t)]_vars

\* four calls: a set, two gets that hit, and a get after the deadline that returned
\* None and left the map empty
C36Witness ==
    \E t \in Threads :
        /\ pc[t] = "lru_ret"
        /\ loc[t].op = "get"
        /\ call[t].ret = None
        /\ calls = 0
        /\ hits = 2
        /\ misses = 1
        /\ evictions = 0
        /\ cache = <<>>

\* ----------------------------------------------------------------- C37
\* the entries of c that are past their deadline at clock value t
ExpiredIn(c, t) == {c[n] : n \in {m \in 1..Len(c) : IsExpired(c[m], t)}}

\* the end of a set: the map is over its capacity exactly when its entries, expired
\* ones included, outnumber max_size; then the least recently used entry goes, live or
\* not, and every other entry, expired or not, stays
EvictionByRecencyStep(t) ==
    (pc[t] = "set_evict" /\ pc'[t] # "set_evict") =>
        IF Len(cache) > max_size
        THEN /\ ~Has(cache', cache[1].key)
             /\ \A n \in 2..Len(cache) : Has(cache', cache[n].key)
             /\ ExpiredIn(cache', now) = ExpiredIn(cache, now) \ {cache[1]}
             /\ evictions' = evictions + 1
        ELSE cache' = cache /\ evictions' = evictions

\* get_stats reports the number of entries in the map, expired ones included
SizeCountsExpiredStep(t) ==
    (pc[t] = "stats_body" /\ pc'[t] # "stats_body") =>
        call'[t].ret.size = Len(cache)

\* C37: capacity eviction looks at recency only. Expired entries that no get or
\* cleanup has met count toward the size, and a set on a full map evicts the least
\* recently used entry even when it is live and another entry has expired.
EvictionByRecency ==
    [][\A t \in Threads : EvictionByRecencyStep(t) /\ SizeCountsExpiredStep(t)]_vars

\* a check_duplicate has just filed its flag in a map of two whose least recently used
\* entry was live and whose other entry had expired: the live entry was evicted and
\* the expired one is still in the map
C37Witness ==
    \E t \in Threads :
        /\ pc[t] = "ret"
        /\ loc[t].op = "check_duplicate"
        /\ Len(loc[t].pre.cache) = max_size
        /\ ~IsExpired(loc[t].pre.cache[1], now)
        /\ ~Has(cache, loc[t].pre.cache[1].key)
        /\ IsExpired(loc[t].pre.cache[2], now)
        /\ cache[1] = loc[t].pre.cache[2]
        /\ evictions = loc[t].pre.evictions + 1

\* ----------------------------------------------------------------- C38
\* the labels inside _invalidate_user_cache and invalidate_pattern
InvalidationLabels == {"inv_pop", "pat_scan", "pat_del"}

CountersStep ==
    /\ (hits' < hits \/ misses' < misses \/ evictions' < evictions) =>
           \E t \in Threads : pc[t] = "clear_body"
    /\ evictions' > evictions =>
           /\ evictions' = evictions + 1
           /\ \E t \in Threads : pc[t] = "set_evict"
    /\ (\E t \in Threads : pc[t] \in InvalidationLabels) =>
           /\ hits' = hits
           /\ misses' = misses
           /\ evictions' = evictions
           /\ KeyList(cache') = SelectSeq(KeyList(cache), LAMBDA k : Has(cache', k))
           /\ \A k \in KeysOf(cache') : Entry(cache', k) = Entry(cache, k)

\* C38: hits, misses and evictions never decrease except in clear; evictions grows only
\* at the end of a set, by one. An entry removed by a get that finds it expired, by
\* cleanup_expired, by delete, by _invalidate_user_cache or by invalidate_pattern is no
\* eviction, and the two invalidations leave hits, misses and the order of the
\* remaining keys as they were.
CountersMonotone == [][CountersStep]_vars

\* invalidate_pattern is about to return: it has removed one of three keys, the two
\* others are in the order they had, and the counters, one hit among them, are those
\* of the moment it took the lock
C38Witness ==
    \E t \in Threads :
        /\ pc[t] = "pat_del"
        /\ call[t].todo = <<>>
        /\ Len(snap.cache) = 3
        /\ Len(cache) = 2
        /\ KeyList(cache) = SelectSeq(KeyList(snap.cache), LAMBDA k : Has(cache, k))
        /\ hits >= 1
        /\ hits = snap.hits
        /\ misses = snap.misses
        /\ evictions = snap.evictions

\* ----------------------------------------------------------------- C39
\* every record of users is the record users_by_id holds for its id, and conversely
IndexesAgree ==
    /\ \A e \in DOMAIN users :
          /\ users[e].user_id \in DOMAIN users_by_id
          /\ users_by_id[users[e].user_id] = users[e]
    /\ \A i \in DOMAIN users_by_id :
          /\ Lower(users_by_id[i].email) \in DOMAIN users
          /\ users[Lower(users_by_id[i].email)] = users_by_id[i]

\* C39: whatever save_user and delete_user calls were made, the two indexes of the
\* store agree, and a delete_user of an email the store holds returns True, raises
\* nothing and leaves the record in neither index.
StoreIndexesConsistent ==
    /\ IndexesAgree
    /\ \A t \in Threads :
          (Returning(t, "delete_user") /\ loc[t].user_data # None) =>
              /\ loc[t].result = Bool(TRUE)
              /\ Lower(loc[t].email) \notin DOMAIN users
              /\ loc[t].user_data.user_id \notin DOMAIN users_by_id

====
